---- MODULE Spec2Model ----
(***************************************************************************)
(* The fluent request builder (class ApiBuilder) of the API test suite,    *)
(* the fixture that hands one builder to each test, and the HTTP client    *)
(* the builder dispatches to.                                              *)
(*                                                                         *)
(* The class exists in two revisions in the repository; `revision` says    *)
(* which one is built.  Header maps are JavaScript objects: the model      *)
(* keeps them in a heap and a builder holds a reference, so that in-place  *)
(* mutation and aliasing are visible.                                      *)
(*                                                                         *)
(* The second half is the schema validator (class SchemaValidator, in its  *)
(* name-based and its document-based form) and the assertion extensions    *)
(* registered with expect.extend, over JavaScript values whose JSON text   *)
(* is built character by character.                                        *)
(***************************************************************************)
EXTENDS Integers, Sequences, FiniteSets, TLC

VARIABLES
    revision,   \* which revision of class ApiBuilder is built (1 or 2)
    env,        \* process.env.GO_REST_API_TOKEN
    heap,       \* header-map objects, by object id
    api,        \* per test: the ApiBuilder instance (its four private fields)
    call,       \* per test: the verb invocation in progress / last settled
    wire,       \* per test: the request handed to the HTTP client, in flight
    hdrOp,      \* per test: last header-affecting call since construction/reset
    ctorAuth,   \* per test: Authorization value the constructor installed
    lastPath,   \* per test: argument of the most recent path() call
    prevParams, \* per test: the params value replaced by the last params() call
    resetFrom,  \* per test: whether the last reset() had everything to wipe
                \* (kept until the next header call)
    sinceReset, \* per test: params()/body() calls since construction or reset()
    fsys,       \* the schema directory on disk: readable or not, corrupt files
    initialized,\* SchemaValidator singleton: private initialized
    registry,   \* SchemaValidator singleton: the schemas added to its ajv, by key
    scans,      \* how many times the schema directory has been listed
    validations,\* how many validate() calls the singleton has served
    vres,       \* outcome of the most recent validate() call
    verdict,    \* outcome of the most recent custom matcher call
    args,       \* the matcher call a test is about to make, when it is fixed
                \* in advance
    ci,         \* process.env.CI once dotenv.config() has run
    config,     \* the configuration the runner was given by defineConfig
    jobs,       \* per test of a run: its state and the attempts made
    net,        \* whether every request of the run is answered as the wire
                \* contract says, or some are throttled or lost
    users,      \* the service: its users, newest first
    nextId,     \* the service: the id the next created user gets
    others,     \* users the tests of the other workers created, oldest first,
                \* and how many more they will create
    run         \* the worker under observation: the test it runs, its
                \* position in it, and createdUserIds of the suite

(* the state of the request builders                                       *)
bvars == <<revision, env, heap, api, call, wire, hdrOp, ctorAuth, lastPath,
           prevParams, resetFrom, sinceReset>>

(* the state of the schema validator and of the assertion extensions       *)
svars == <<fsys, initialized, registry, scans, validations, vres, verdict, args>>

(* the runner, the service and the tests run against it                    *)
rvars == <<ci, config, jobs, net, users, nextId, others, run>>

vars == <<bvars, svars, rvars>>

----------------------------------------------------------------------------
(* Optional values: undefined is the empty set, a value x is {x}.          *)
None == {}
Some(x) == {x}
The(o) == CHOOSE x \in o : TRUE

(* playwright config: workers: process.env.CI ? 3 : 2                      *)
Workers == 2
Tests == 1..Workers
Solo == {1}

(* playwright config: use.baseURL                                          *)
ProjectBaseURL == "https://gorest.co.in/public/v2"

Revisions == {1, 2}
EnvTokens == {"tokenA", "tokenB"}
HardcodedToken == "2059b85dde4dd8b1e494a57cf35008f7909a9c863799e486a2aa030dbecd0c0c"

(* Inputs the tests hand to the builder.                                   *)
Paths == {"/users", "/users/7"}
ParamMaps == { ("page" :> 1 @@ "per_page" :> 5), ("page" :> 2) }
Bodies == { "{name,email,gender,status}" }
HeaderMaps == { ("Content-Type" :> "text/plain" @@ "Authorization" :> "Bearer other"),
                ("authorization" :> "Bearer lower") }
Verbs == {"get", "post", "put", "patch", "delete"}
Statuses == {200, 401}
TransportErrors == {"ECONNRESET", "ETIMEDOUT"}
ResponseTexts == {"[]", ""}

(* Object ids of header maps; 0 is the value of a field never assigned.    *)
NullRef == 0
ObjIds == 1..Workers
Unallocated == <<>>

----------------------------------------------------------------------------
(* Object helpers                                                          *)

(* { ...a, ...b }                                                          *)
Spread(a, b) == [k \in (DOMAIN a) \cup (DOMAIN b) |->
                    IF k \in DOMAIN b THEN b[k] ELSE a[k]]

(* the object without own property k                                       *)
Without(o, k) == [j \in (DOMAIN o) \ {k} |-> o[j]]

(* HTTP header names are case-insensitive: the name a server sees          *)
LowerName(k) ==
    CASE k = "Authorization" -> "authorization"
      [] k = "Content-Type"  -> "content-type"
      [] k = "Accept"        -> "accept"
      [] OTHER               -> k

(* Faulty variant of NewObject: one module-level object handed to every    *)
(* builder instead of a new one per call.                                  *)
NewObjectShared(b) == CHOOSE i \in ObjIds : \A j \in ObjIds : i <= j

(* a new object: an id no other builder refers to (the builder's own old   *)
(* object is garbage once the field is reassigned, so its id may be reused)*)
NewObject(b) ==
    LET used == { api[c].requestHeaders : c \in Tests \ {b} }
        free == ObjIds \ used
    IN  CHOOSE i \in free : \A j \in free : i <= j

----------------------------------------------------------------------------
(* class ApiBuilder                                                        *)

(* the field initialisers, before the constructor body runs               *)
FieldInit == [endpoint |-> "", requestParams |-> None,
              requestHeaders |-> NullRef, requestBody |-> None]

Constructed(b) == api[b].requestHeaders # NullRef

Bearer(token) == "Bearer " \o token

(* Faulty variant of getDefaultHeaders: no Authorization header.           *)
getDefaultHeadersAnonymous(rev, token) ==
    "Accept" :> "application/json" @@
    "Content-Type" :> "application/json"

getDefaultHeaders(rev, token) ==
    "Accept" :> "application/json" @@
    "Content-Type" :> "application/json" @@
    "Authorization" :> (IF rev = 1 THEN Bearer(token) ELSE Bearer(HardcodedToken))

HeadersOf(b) == IF Constructed(b) THEN heap[api[b].requestHeaders] ELSE Unallocated

(* a verb invocation: the method called, what it did and how it ended      *)
NoCall == [pc |-> "idle", verb |-> "", json |-> FALSE, expected |-> 0,
           dispatches |-> 0, parses |-> 0, outcome |-> "", actual |-> 0,
           message |-> <<>>, raised |-> "", error |-> ""]

Idle(b) == Constructed(b) /\ call[b].pc # "awaiting"

(* fixture `api`: new ApiBuilder(request)                                  *)
Fixture(b) ==
    /\ ~Constructed(b)
    /\ LET ref == NewObject(b)
           dflt == getDefaultHeaders(revision, env)
       IN  /\ api' = [api EXCEPT ![b].requestHeaders = ref]
           /\ heap' = [heap EXCEPT ![ref] = dflt]
           /\ ctorAuth' = [ctorAuth EXCEPT ![b] = Some(dflt["Authorization"])]
    /\ UNCHANGED <<svars, rvars, revision, env, call, wire, hdrOp, lastPath, prevParams, resetFrom, sinceReset>>

path(b, endpoint) ==
    /\ Idle(b)
    /\ api' = [api EXCEPT ![b].endpoint = "https://gorest.co.in/public/v2" \o endpoint]
    /\ lastPath' = [lastPath EXCEPT ![b] = Some(endpoint)]
    /\ UNCHANGED <<svars, rvars, revision, env, heap, call, wire, hdrOp, ctorAuth, prevParams, resetFrom, sinceReset>>

(* Faulty variant of params(): merges into the current map.                *)
paramsMerging(b, m) ==
    /\ Idle(b)
    /\ api' = [api EXCEPT ![b].requestParams =
                  IF @ = None THEN Some(m) ELSE Some(Spread(The(@), m))]
    /\ prevParams' = [prevParams EXCEPT ![b] = api[b].requestParams]
    /\ sinceReset' = [sinceReset EXCEPT ![b] = @ \cup {"params"}]
    /\ UNCHANGED <<svars, rvars, revision, env, heap, call, wire, hdrOp, ctorAuth, lastPath, resetFrom>>

params(b, m) ==
    /\ Idle(b)
    /\ api' = [api EXCEPT ![b].requestParams = Some(m)]
    /\ prevParams' = [prevParams EXCEPT ![b] = api[b].requestParams]
    /\ sinceReset' = [sinceReset EXCEPT ![b] = @ \cup {"params"}]
    /\ UNCHANGED <<svars, rvars, revision, env, heap, call, wire, hdrOp, ctorAuth, lastPath, resetFrom>>

body(b, data) ==
    /\ Idle(b)
    /\ api' = [api EXCEPT ![b].requestBody = Some(data)]
    /\ sinceReset' = [sinceReset EXCEPT ![b] = @ \cup {"body"}]
    /\ UNCHANGED <<svars, rvars, revision, env, heap, call, wire, hdrOp, ctorAuth, lastPath,
                   prevParams, resetFrom>>

(* Faulty variant of headers(): the given map replaces the current one.    *)
headersReplacing(b, h) ==
    /\ Idle(b)
    /\ LET ref == NewObject(b)
       IN  /\ api' = [api EXCEPT ![b].requestHeaders = ref]
           /\ heap' = [heap EXCEPT ![ref] = h]
    /\ hdrOp' = [hdrOp EXCEPT ![b] = "headers"]
    /\ resetFrom' = [resetFrom EXCEPT ![b] = None]
    /\ UNCHANGED <<svars, rvars, revision, env, call, wire, ctorAuth, lastPath, prevParams, sinceReset>>

headers(b, h) ==
    /\ Idle(b)
    /\ LET ref == NewObject(b)
       IN  /\ api' = [api EXCEPT ![b].requestHeaders = ref]
           /\ heap' = [heap EXCEPT ![ref] = Spread(HeadersOf(b), h)]
    /\ hdrOp' = [hdrOp EXCEPT ![b] = "headers"]
    /\ resetFrom' = [resetFrom EXCEPT ![b] = None]
    /\ UNCHANGED <<svars, rvars, revision, env, call, wire, ctorAuth, lastPath, prevParams, sinceReset>>

(* revision 1 builds a new object without the property; revision 2 deletes *)
(* the property from the object in place                                   *)
withoutAuth(b) ==
    /\ Idle(b)
    /\ IF revision = 1
       THEN LET ref == NewObject(b)
            IN  /\ api' = [api EXCEPT ![b].requestHeaders = ref]
                /\ heap' = [heap EXCEPT ![ref] = Without(HeadersOf(b), "Authorization")]
       ELSE /\ heap' = [heap EXCEPT ![api[b].requestHeaders] =
                                        Without(@, "Authorization")]
            /\ api' = api
    /\ hdrOp' = [hdrOp EXCEPT ![b] = "withoutAuth"]
    /\ resetFrom' = [resetFrom EXCEPT ![b] = None]
    /\ UNCHANGED <<svars, rvars, revision, env, call, wire, ctorAuth, lastPath, prevParams, sinceReset>>

(* whether reset() is called on a configuration with everything to wipe:   *)
(* a path, params and a body set and the Authorization header removed      *)
Dirty(b) ==
    /\ api[b].endpoint # ""
    /\ api[b].requestParams # None
    /\ api[b].requestBody # None
    /\ hdrOp[b] = "withoutAuth"

(* Faulty variant of reset(): the header map and the body are left alone.  *)
resetKeepingHeaders(b) ==
    /\ Idle(b)
    /\ api' = [api EXCEPT ![b].endpoint = "", ![b].requestParams = None]
    /\ heap' = heap
    /\ hdrOp' = [hdrOp EXCEPT ![b] = "default"]
    /\ resetFrom' = [resetFrom EXCEPT ![b] = Some(Dirty(b))]
    /\ prevParams' = [prevParams EXCEPT ![b] = None]
    /\ sinceReset' = [sinceReset EXCEPT ![b] = {}]
    /\ UNCHANGED <<svars, rvars, revision, env, call, wire, ctorAuth, lastPath>>

reset(b) ==
    /\ Idle(b)
    /\ LET ref == NewObject(b)
       IN  /\ api' = [api EXCEPT ![b] = [endpoint |-> "", requestParams |-> None,
                                         requestBody |-> None, requestHeaders |-> ref]]
           /\ heap' = [heap EXCEPT ![ref] = getDefaultHeaders(revision, env)]
    /\ hdrOp' = [hdrOp EXCEPT ![b] = "default"]
    /\ resetFrom' = [resetFrom EXCEPT ![b] = Some(Dirty(b))]
    /\ prevParams' = [prevParams EXCEPT ![b] = None]
    /\ sinceReset' = [sinceReset EXCEPT ![b] = {}]
    /\ UNCHANGED <<svars, rvars, revision, env, call, wire, ctorAuth, lastPath>>

----------------------------------------------------------------------------
(* The verb methods                                                        *)

(* Faulty variant of OptionKeys: every verb hands over params, data and    *)
(* headers alike.                                                          *)
OptionKeysUniform(verb) == {"params", "data", "headers"}

(* the options object each verb hands to the HTTP client                   *)
OptionKeys(verb) ==
    CASE verb = "get"    -> {"params", "headers"}
      [] verb = "delete" -> {"headers"}
      [] OTHER           -> {"data", "headers"}

(* this.request.<verb>(this.endpoint, { ... })                             *)
RequestOf(b, verb) ==
    [method  |-> verb,
     url     |-> api[b].endpoint,
     keys    |-> OptionKeys(verb),
     params  |-> IF "params" \in OptionKeys(verb) THEN api[b].requestParams ELSE None,
     data    |-> IF "data" \in OptionKeys(verb) THEN api[b].requestBody ELSE None,
     headers |-> HeadersOf(b)]

(* the methods the class defines that parse the body: there is no          *)
(* deleteRequestJson                                                       *)
JsonVerbs == {"get", "post", "put", "patch"}

(* Faulty variant of Dispatch: the params and the body are used up by the  *)
(* request that sends them.                                                *)
DispatchConsuming(b, verb, json, expectedStatus) ==
    /\ Idle(b)
    /\ call' = [call EXCEPT ![b] = [NoCall EXCEPT !.pc = "awaiting", !.verb = verb,
                                       !.json = json, !.expected = expectedStatus,
                                       !.dispatches = 1]]
    /\ wire' = [wire EXCEPT ![b] = Some(RequestOf(b, verb))]
    /\ api' = [api EXCEPT ![b].requestParams = None, ![b].requestBody = None]
    /\ UNCHANGED <<svars, rvars, revision, env, heap, hdrOp, ctorAuth, lastPath,
                   prevParams, resetFrom, sinceReset>>

(* the call up to its await: one request handed to the HTTP client         *)
Dispatch(b, verb, json, expectedStatus) ==
    /\ Idle(b)
    /\ call' = [call EXCEPT ![b] = [NoCall EXCEPT !.pc = "awaiting", !.verb = verb,
                                       !.json = json, !.expected = expectedStatus,
                                       !.dispatches = 1]]
    /\ wire' = [wire EXCEPT ![b] = Some(RequestOf(b, verb))]
    /\ UNCHANGED <<svars, rvars, revision, env, heap, api, hdrOp, ctorAuth, lastPath,
                   prevParams, resetFrom, sinceReset>>

getRequest(b, expectedStatus)    == Dispatch(b, "get", FALSE, expectedStatus)
postRequest(b, expectedStatus)   == Dispatch(b, "post", FALSE, expectedStatus)
putRequest(b, expectedStatus)    == Dispatch(b, "put", FALSE, expectedStatus)
patchRequest(b, expectedStatus)  == Dispatch(b, "patch", FALSE, expectedStatus)
deleteRequest(b, expectedStatus) == Dispatch(b, "delete", FALSE, expectedStatus)

getRequestJson(b, expectedStatus)   == Dispatch(b, "get", TRUE, expectedStatus)
postRequestJson(b, expectedStatus)  == Dispatch(b, "post", TRUE, expectedStatus)
putRequestJson(b, expectedStatus)   == Dispatch(b, "put", TRUE, expectedStatus)
patchRequestJson(b, expectedStatus) == Dispatch(b, "patch", TRUE, expectedStatus)

(* calling a method the class does not define: a TypeError, nothing sent   *)
deleteRequestJson(b, expectedStatus) ==
    /\ Idle(b)
    /\ call' = [call EXCEPT ![b] = [NoCall EXCEPT !.pc = "done", !.verb = "delete",
                                       !.json = TRUE, !.expected = expectedStatus,
                                       !.outcome = "TypeError"]]
    /\ UNCHANGED <<svars, rvars, revision, env, heap, api, wire, hdrOp, ctorAuth, lastPath,
                   prevParams, resetFrom, sinceReset>>

(* `Expected status ${expectedStatus}, got ${response.status()}`           *)
StatusMessage(expectedStatus, actual) ==
    <<"Expected status ", ToString(expectedStatus), ", got ", ToString(actual)>>

(* response.json(): JSON.parse of the body text                            *)
ParsesAsJson(text) == text # ""

(* Faulty variants of Settle: no status assertion; a second dispatch on a  *)
(* status mismatch; the body parsed before the status is asserted.         *)
SettleUnasserted(c, status, text) ==
    IF ~c.json
    THEN [c EXCEPT !.pc = "done", !.outcome = "response"]
    ELSE [c EXCEPT !.pc = "done", !.parses = 1,
                   !.outcome = IF ParsesAsJson(text) THEN "json" ELSE "SyntaxError"]

SettleRetrying(c, status, text) ==
    IF status # c.expected /\ c.dispatches < 2
    THEN [c EXCEPT !.dispatches = @ + 1]
    ELSE IF status # c.expected
    THEN [c EXCEPT !.pc = "done", !.outcome = "AssertionError",
                   !.message = StatusMessage(c.expected, status)]
    ELSE IF ~c.json
    THEN [c EXCEPT !.pc = "done", !.outcome = "response"]
    ELSE [c EXCEPT !.pc = "done", !.parses = 1,
                   !.outcome = IF ParsesAsJson(text) THEN "json" ELSE "SyntaxError"]

SettleParsingFirst(c, status, text) ==
    IF status # c.expected
    THEN [c EXCEPT !.pc = "done", !.outcome = "AssertionError",
                   !.parses = IF c.json THEN 1 ELSE 0,
                   !.message = StatusMessage(c.expected, status)]
    ELSE IF ~c.json
    THEN [c EXCEPT !.pc = "done", !.outcome = "response"]
    ELSE [c EXCEPT !.pc = "done", !.parses = 1,
                   !.outcome = IF ParsesAsJson(text) THEN "json" ELSE "SyntaxError"]

(* the rest of the method once the client resolved with a response:        *)
(* expect(status, message).toBe(expectedStatus); return response; and for  *)
(* the ...Json methods, return await response.json()                       *)
Settle(c, status, text) ==
    IF status # c.expected
    THEN [c EXCEPT !.pc = "done", !.outcome = "AssertionError",
                   !.message = StatusMessage(c.expected, status)]
    ELSE IF ~c.json
    THEN [c EXCEPT !.pc = "done", !.outcome = "response"]
    ELSE [c EXCEPT !.pc = "done", !.parses = 1,
                   !.outcome = IF ParsesAsJson(text) THEN "json" ELSE "SyntaxError"]

(* the rest of the method once the client rejected: no try/catch, the      *)
(* rejection is the method's rejection                                     *)
Propagate(c, err) ==
    [c EXCEPT !.pc = "done", !.outcome = "threw", !.error = err]

(* the HTTP client resolves the request                                    *)
Respond(b, status, text) ==
    /\ call[b].pc = "awaiting"
    /\ call' = [call EXCEPT ![b] = [Settle(@, status, text) EXCEPT !.actual = status]]
    /\ wire' = [wire EXCEPT ![b] = IF call'[b].pc = "awaiting" THEN @ ELSE None]
    /\ UNCHANGED <<svars, rvars, revision, env, heap, api, hdrOp, ctorAuth, lastPath,
                   prevParams, resetFrom, sinceReset>>

(* the HTTP client rejects: timeout, connection error                      *)
Reject(b, err) ==
    /\ call[b].pc = "awaiting"
    /\ call' = [call EXCEPT ![b] = [Propagate(@, err) EXCEPT !.raised = err]]
    /\ wire' = [wire EXCEPT ![b] = IF call'[b].pc = "awaiting" THEN @ ELSE None]
    /\ UNCHANGED <<svars, rvars, revision, env, heap, api, hdrOp, ctorAuth, lastPath,
                   prevParams, resetFrom, sinceReset>>

(* the environment value changes while tests run                           *)
SetEnv(t) ==
    /\ t # env
    /\ env' = t
    /\ UNCHANGED <<svars, rvars, revision, heap, api, call, wire, hdrOp, ctorAuth, lastPath,
                   prevParams, resetFrom, sinceReset>>

----------------------------------------------------------------------------
(* JavaScript values as the assertion extensions and the validator see     *)
(* them.  A text is a sequence of fragments (single characters wherever a  *)
(* search looks inside it) whose concatenation is the string.  A value is  *)
(* a record: its type, its scalar text, its members in insertion order     *)
(* and, for objects and arrays, the identity that === compares.            *)

J(t, s, kv, id) == [t |-> t, s |-> s, kv |-> kv, id |-> id]
Undefined == J("undefined", <<>>, <<>>, 0)
Null      == J("null", <<>>, <<>>, 0)
Num(s)    == J("number", s, <<>>, 0)
Str(s)    == J("string", s, <<>>, 0)
NaN       == Num(<<"N", "a", "N">>)
Arr(id, items) == J("array", <<>>, [i \in 1..Len(items) |-> <<<<>>, items[i]>>], id)
Obj(id, members) == J("object", <<>>, members, id)

(* String(value): the text a value is coerced to                           *)
RECURSIVE JoinTexts(_, _)
JoinTexts(ts, sep) ==
    IF ts = <<>> THEN <<>>
    ELSE IF Len(ts) = 1 THEN ts[1]
    ELSE ts[1] \o sep \o JoinTexts(Tail(ts), sep)

RECURSIVE String(_)
String(v) ==
    CASE v.t = "undefined" -> <<"u", "n", "d", "e", "f", "i", "n", "e", "d">>
      [] v.t = "null"      -> <<"n", "u", "l", "l">>
      [] v.t = "object"    -> <<"[", "o", "b", "j", "e", "c", "t", " ",
                                "O", "b", "j", "e", "c", "t", "]">>
      [] v.t = "array"     ->
            JoinTexts([i \in 1..Len(v.kv) |->
                          IF v.kv[i][2].t \in {"undefined", "null"} THEN <<>>
                          ELSE String(v.kv[i][2])], <<",">>)
      [] OTHER             -> v.s

(* JSON.stringify: string escaping                                         *)
RECURSIVE Escape(_)
Escape(s) ==
    IF s = <<>> THEN <<>>
    ELSE (IF Head(s) \in {"\"", "\\"} THEN <<"\\", Head(s)>> ELSE <<Head(s)>>)
         \o Escape(Tail(s))

Quote(s) == <<"\"">> \o Escape(s) \o <<"\"">>

RECURSIVE Spaces(_)
Spaces(n) == IF n = 0 THEN <<>> ELSE <<" ">> \o Spaces(n - 1)

(* JSON.stringify(value, null, indent) below the top level, at nesting     *)
(* depth `depth`; indent 0 is JSON.stringify(value)                        *)
RECURSIVE Serialize(_, _, _)
Serialize(v, indent, depth) ==
    LET gap   == IF indent = 0 THEN <<>> ELSE <<"\n">> \o Spaces(indent * (depth + 1))
        close == IF indent = 0 THEN <<>> ELSE <<"\n">> \o Spaces(indent * depth)
        colon == IF indent = 0 THEN <<":">> ELSE <<":", " ">>
        kept  == SelectSeq(v.kv, LAMBDA m : m[2].t # "undefined")
    IN  CASE v.t = "null"   -> <<"n", "u", "l", "l">>
          [] v.t = "number" -> IF v = NaN THEN <<"n", "u", "l", "l">> ELSE v.s
          [] v.t = "string" -> Quote(v.s)
          [] v.t = "array"  ->
                IF v.kv = <<>> THEN <<"[", "]">>
                ELSE <<"[">>
                     \o JoinTexts([i \in 1..Len(v.kv) |->
                           gap \o (IF v.kv[i][2].t = "undefined"
                                   THEN <<"n", "u", "l", "l">>
                                   ELSE Serialize(v.kv[i][2], indent, depth + 1))],
                           <<",">>)
                     \o close \o <<"]">>
          [] v.t = "object" ->
                IF kept = <<>> THEN <<"{", "}">>
                ELSE <<"{">>
                     \o JoinTexts([i \in 1..Len(kept) |->
                           gap \o Quote(kept[i][1]) \o colon
                               \o Serialize(kept[i][2], indent, depth + 1)],
                           <<",">>)
                     \o close \o <<"}">>
          [] OTHER -> <<>>

(* JSON.stringify(value): no text at all for undefined                     *)
Stringify(v) == IF v.t = "undefined" THEN None ELSE Some(Serialize(v, 0, 0))

(* JSON.stringify(value, null, 2)                                          *)
Pretty(v) == IF v.t = "undefined" THEN None ELSE Some(Serialize(v, 2, 0))

(* a === b                                                                 *)
StrictEquals(a, b) ==
    IF a.t \in {"object", "array"} \/ b.t \in {"object", "array"}
    THEN a.t = b.t /\ a.id = b.id
    ELSE a = b /\ a # NaN

(* String.prototype.includes(needle)                                       *)
Includes(hay, needle) ==
    \E i \in 0..(Len(hay) - Len(needle)) :
        \A j \in 1..Len(needle) : hay[i + j] = needle[j]

----------------------------------------------------------------------------
(* The assertion extensions (expect.extend).  They exist in two files:     *)
(* src/utils/customMatchers.ts (1) and src/unnamed/part_005 (2).           *)
(* A matcher returns {pass, message}; expect turns it into the outcome of  *)
(* the assertion.                                                          *)

MatcherRevisions == {1, 2}

Result(pass, message) == [pass |-> pass, message |-> message]

(* expect(received).m(...) succeeds when the matcher passes, and           *)
(* expect(received).not.m(...) when it does not                            *)
Outcome(negated, result) ==
    IF result.pass # negated THEN "succeeds" ELSE "fails"

(* `validation` is the serial number of the validate() call the matcher   *)
(* made on the singleton, 0 when it made none                              *)
Assertion(matcher, rev, received, expected, negated, validation, result) ==
    [matcher |-> matcher, rev |-> rev, received |-> received,
     expected |-> expected, negated |-> negated, validation |-> validation,
     pass |-> result.pass, message |-> result.message,
     outcome |-> Outcome(negated, result)]

(* Array.prototype.includes compares with SameValueZero                    *)
SameValueZero(a, b) == StrictEquals(a, b) \/ (a = NaN /\ b = NaN)

(* a value interpolated into a message template                            *)
Shown(v) == IF v.t = "undefined" THEN String(v) ELSE Serialize(v, 0, 0)

shouldEqualStrict(received, expected) ==
    Result(StrictEquals(received, expected), <<>>)

shouldEqual(received, expected) ==
    LET pass == \/ StrictEquals(received, expected)
                \/ Stringify(received) = Stringify(expected)
    IN  Result(pass,
               <<"Expected ">> \o Shown(received)
               \o (IF pass THEN <<" NOT to equal ">> ELSE <<" to equal ">>)
               \o Shown(expected))

shouldContainIdentical(rev, received, expected) ==
    Result(CASE received.t = "string" -> Includes(received.s, String(expected))
             [] received.t = "array"  ->
                    \E i \in 1..Len(received.kv) :
                        SameValueZero(received.kv[i][2], expected)
             [] OTHER -> FALSE,
           <<>>)

shouldContain(rev, received, expected) ==
    LET inString == Includes(received.s, String(expected))
        inArray  == \/ \E i \in 1..Len(received.kv) :
                          SameValueZero(received.kv[i][2], expected)
                    \/ \E i \in 1..Len(received.kv) :
                          Stringify(received.kv[i][2]) = Stringify(expected)
        inObject == Includes(Serialize(received, 0, 0), String(expected))
        pass ==
            IF rev = 1
            THEN CASE received.t = "string" -> inString
                   [] received.t = "array"  -> inArray
                   [] received.t \in {"object", "null"} -> inObject
                   [] OTHER -> FALSE
            ELSE CASE received.t = "string" /\ expected.t = "string" -> inString
                   [] received.t = "array"  -> inArray
                   [] received.t = "object" -> inObject
                   [] OTHER -> FALSE
    IN  Result(pass,
               <<"Expected ">> \o Shown(received)
               \o (IF pass THEN <<" NOT to contain ">> ELSE <<" to contain ">>)
               \o (IF rev = 1 THEN String(expected) ELSE Shown(expected)))

(* the character classes of /^[^\s@]+@[^\s@]+\.[^\s@]+$/                   *)
Whitespace == {" ", "\t", "\n"}
Plain(s) == \A i \in 1..Len(s) : s[i] \notin Whitespace \cup {"@"}

(* RegExp.prototype.test for that expression: some split of the whole      *)
(* string into the three runs and the two literals                         *)
EmailRegexOpenEnded(s) ==
    \E a \in 1..Len(s) : \E b \in 1..Len(s) :
        /\ a + 1 + b + 1 <= Len(s)
        /\ Plain(SubSeq(s, 1, a))
        /\ s[a + 1] = "@"
        /\ Plain(SubSeq(s, a + 2, a + 1 + b))
        /\ s[a + b + 2] = "."
        /\ Plain(SubSeq(s, a + b + 3, Len(s)))

EmailRegex(s) ==
    \E a \in 1..Len(s) : \E b \in 1..Len(s) :
        /\ a + 1 + b + 1 < Len(s)
        /\ Plain(SubSeq(s, 1, a))
        /\ s[a + 1] = "@"
        /\ Plain(SubSeq(s, a + 2, a + 1 + b))
        /\ s[a + b + 2] = "."
        /\ Plain(SubSeq(s, a + b + 3, Len(s)))

shouldBeValidEmail(received) ==
    LET pass == received.t = "string" /\ EmailRegex(received.s)
    IN  Result(pass,
               <<"Expected ">> \o String(received)
               \o (IF pass THEN <<" NOT to be a valid email">>
                   ELSE <<" to be a valid email format">>))

----------------------------------------------------------------------------
(* Values handed to the matchers                                           *)

N1 == Num(<<"1">>)
N2 == Num(<<"2">>)
N3 == Num(<<"3">>)
N9 == Num(<<"9">>)
OneTwoThree == Arr(1, <<N1, N2, N3>>)
HelloWorld == Str(<<"h", "e", "l", "l", "o", " ", "w", "o", "r", "l", "d">>)
World == Str(<<"w", "o", "r", "l", "d">>)
Member(k, v) == <<k, v>>
AB      == Obj(2, <<Member(<<"a">>, N1), Member(<<"b">>, N2)>>)
ABAgain == Obj(3, <<Member(<<"a">>, N1), Member(<<"b">>, N2)>>)
BA      == Obj(4, <<Member(<<"b">>, N2), Member(<<"a">>, N1)>>)
AB9     == Obj(5, <<Member(<<"a">>, N1), Member(<<"b">>, N9)>>)
A1      == Obj(6, <<Member(<<"a">>, N1)>>)
A1Again == Obj(7, <<Member(<<"a">>, N1)>>)
Nested  == Obj(8, <<Member(<<"x">>, A1)>>)
Keyed   == Obj(9, <<Member(<<"a", "b">>, Str(<<"c">>))>>)
Holder  == Arr(10, <<A1, NaN, Undefined>>)

Values == {Undefined, Null, NaN, N1, N2, N9, Str(<<"1">>), Str(<<"a">>),
           Str(<<"c">>), Str(<<"a", "1">>), HelloWorld, World, OneTwoThree,
           AB, ABAgain, BA, AB9, A1, A1Again, Nested, Keyed, Holder}

(* strings handed to shouldBeValidEmail                                    *)
MaxEmailLen == 5
EmailAlphabet == {"a", ".", "@", " "}
Texts(n) == UNION {[1..k -> EmailAlphabet] : k \in 0..n}
ABCom == <<"a", "@", "b", ".", "c", "o", "m">>
NotAnEmail == <<"n", "o", "t", "-", "a", "n", "-", "e", "m", "a", "i", "l">>
AAtAtBCom == <<"a", "@", "@", "b", ".", "c", "o", "m">>
EmailCandidates ==
    {Str(s) : s \in Texts(MaxEmailLen) \cup {ABCom, NotAnEmail, AAtAtBCom}}
        \cup Values

(* a call as a test writes it                                              *)
Call(matcher, rev, received, expected) ==
    [matcher |-> matcher, rev |-> rev, received |-> received, expected |-> expected]

(* expect(received).shouldEqual(expected)                                  *)
ExpectShouldEqual ==
    /\ args # None /\ The(args).matcher = "shouldEqual"
    /\ LET c == The(args)
       IN  verdict' = Some(Assertion(c.matcher, c.rev, c.received, c.expected, FALSE, 0,
                                     shouldEqual(c.received, c.expected)))
    /\ UNCHANGED <<bvars, rvars, fsys, initialized, registry, scans, validations, vres, args>>

(* expect(received).shouldContain(expected)                                *)
ExpectShouldContain ==
    /\ args # None /\ The(args).matcher = "shouldContain"
    /\ LET c == The(args)
       IN  verdict' = Some(Assertion(c.matcher, c.rev, c.received, c.expected, FALSE, 0,
                                     shouldContain(c.rev, c.received, c.expected)))
    /\ UNCHANGED <<bvars, rvars, fsys, initialized, registry, scans, validations, vres, args>>

(* expect(received).shouldBeValidEmail()                                   *)
ExpectShouldBeValidEmail ==
    /\ args # None /\ The(args).matcher = "shouldBeValidEmail"
    /\ LET c == The(args)
       IN  verdict' = Some(Assertion(c.matcher, c.rev, c.received, c.expected, FALSE, 0,
                                     shouldBeValidEmail(c.received)))
    /\ UNCHANGED <<bvars, rvars, fsys, initialized, registry, scans, validations, vres, args>>

----------------------------------------------------------------------------
(* JSON Schema documents and their validation by Ajv with allErrors: true. *)
(* A document is a record; an absent keyword is the empty sequence, the    *)
(* empty string or FALSE.                                                  *)

Sch(type, props, required, closed, enum, format, items) ==
    [type |-> type, props |-> props, required |-> required, closed |-> closed,
     enum |-> enum, format |-> format, items |-> items]
Scalar(type) == Sch(type, <<>>, <<>>, FALSE, <<>>, "", <<>>)
Enum(type, values) == Sch(type, <<>>, <<>>, FALSE, values, "", <<>>)

userSchema ==
    Sch("object",
        << <<<<"id">>, Scalar("number")>>,
           <<<<"name">>, Scalar("string")>>,
           <<<<"email">>, Sch("string", <<>>, <<>>, FALSE, <<>>, "email", <<>>)>>,
           <<<<"gender">>, Enum("string", << <<"male">>, <<"female">> >>)>>,
           <<<<"status">>, Enum("string", << <<"active">>, <<"inactive">> >>)>> >>,
        << <<"id">>, <<"name">>, <<"email">>, <<"gender">>, <<"status">> >>,
        TRUE, <<>>, "", <<>>)

userArraySchema == Sch("array", <<>>, <<>>, FALSE, <<>>, "", <<userSchema>>)

(* minItems: 0 constrains nothing                                          *)
GET_users == Sch("array", <<>>, <<>>, FALSE, <<>>, "", <<userSchema>>)

errorResponseSchema ==
    Sch("array", <<>>, <<>>, FALSE, <<>>, "",
        << Sch("object",
               << <<<<"field">>, Scalar("string")>>,
                  <<<<"message">>, Scalar("string")>> >>,
               << <<"field">>, <<"message">> >>,
               FALSE, <<>>, "", <<>>) >>)

(* the email format: ajv-formats in the name-based validator (1), the      *)
(* validator's own expression in the document-based one (2)                *)
Label(s) ==
    /\ s # <<>>
    /\ \A i \in 1..Len(s) : s[i] \notin Whitespace \cup {"@", "."}
    /\ s[1] # "-" /\ s[Len(s)] # "-"

RECURSIVE Dotted(_)
Dotted(s) ==
    \/ Label(s)
    \/ \E i \in 2..(Len(s) - 1) :
          s[i] = "." /\ Label(SubSeq(s, 1, i - 1)) /\ Dotted(SubSeq(s, i + 1, Len(s)))

AjvFormatsEmail(s) ==
    \E i \in 2..(Len(s) - 1) :
        /\ s[i] = "@"
        /\ Dotted(SubSeq(s, 1, i - 1))
        /\ Dotted(SubSeq(s, i + 1, Len(s)))
        /\ ~Label(SubSeq(s, i + 1, Len(s)))

FormatHolds(validator, format, s) ==
    IF format # "email" THEN TRUE
    ELSE IF validator = 1 THEN AjvFormatsEmail(s) ELSE EmailRegex(s)

TypeHolds(type, v) ==
    IF type = "number" THEN v.t = "number" /\ v # NaN ELSE v.t = type

Keys(members) == { members[i][1] : i \in 1..Len(members) }

ErrorObject(instancePath, keyword, message) ==
    [instancePath |-> instancePath, keyword |-> keyword, message |-> message]

RECURSIVE Concat(_)
Concat(ss) == IF ss = <<>> THEN <<>> ELSE Head(ss) \o Concat(Tail(ss))

(* the compiled validation function: validate.errors, empty when valid     *)
(* (every violation is reported; the order among them is not Ajv's)        *)
RECURSIVE AjvErrors(_, _, _, _)
AjvErrors(validator, schema, data, instancePath) ==
    LET typeErrors ==
            IF TypeHolds(schema.type, data) THEN <<>>
            ELSE <<ErrorObject(instancePath, "type", <<"must be ", schema.type>>)>>
        enumErrors ==
            IF schema.enum = <<>>
               \/ (data.t = "string" /\ \E i \in 1..Len(schema.enum) : schema.enum[i] = data.s)
            THEN <<>>
            ELSE <<ErrorObject(instancePath, "enum",
                               <<"must be equal to one of the allowed values">>)>>
        formatErrors ==
            IF data.t # "string" \/ FormatHolds(validator, schema.format, data.s)
            THEN <<>>
            ELSE <<ErrorObject(instancePath, "format",
                               <<"must match format ", "\"", schema.format, "\"">>)>>
        requiredErrors ==
            IF data.t # "object" THEN <<>>
            ELSE Concat([i \in 1..Len(schema.required) |->
                    IF schema.required[i] \in Keys(data.kv) THEN <<>>
                    ELSE <<ErrorObject(instancePath, "required",
                               <<"must have required property '">>
                               \o schema.required[i] \o <<"'">>)>>])
        additionalErrors ==
            IF data.t # "object" \/ ~schema.closed THEN <<>>
            ELSE Concat([i \in 1..Len(data.kv) |->
                    IF data.kv[i][1] \in Keys(schema.props) THEN <<>>
                    ELSE <<ErrorObject(instancePath, "additionalProperties",
                               <<"must NOT have additional properties">>)>>])
        propertyErrors ==
            IF data.t # "object" THEN <<>>
            ELSE Concat([i \in 1..Len(schema.props) |->
                    LET here == SelectSeq(data.kv,
                                    LAMBDA m : m[1] = schema.props[i][1])
                    IN  IF here = <<>> THEN <<>>
                        ELSE AjvErrors(validator, schema.props[i][2], here[Len(here)][2],
                                       instancePath \o <<"/">> \o schema.props[i][1])])
        itemErrors ==
            IF data.t # "array" \/ schema.items = <<>> THEN <<>>
            ELSE Concat([i \in 1..Len(data.kv) |->
                    AjvErrors(validator, schema.items[1], data.kv[i][2],
                              instancePath \o <<"/", ToString(i - 1)>>)])
    IN  requiredErrors \o additionalErrors \o propertyErrors \o itemErrors
        \o formatErrors \o enumErrors \o typeErrors

----------------------------------------------------------------------------
(* SchemaValidator, document-based: validate(schema, data) compiles the    *)
(* document it is handed and reports one message per error.                *)

validateFirstOnly(schema, data) ==
    LET errs == AjvErrors(2, schema, data, <<>>)
    IN  IF errs # <<>>
        THEN [valid |-> FALSE,
              errors |-> <<errs[1].instancePath \o <<" ">> \o errs[1].message>>]
        ELSE [valid |-> TRUE, errors |-> <<>>]

validateDocument(schema, data) ==
    LET errs == AjvErrors(2, schema, data, <<>>)
    IN  IF errs # <<>>
        THEN [valid |-> FALSE,
              errors |-> [i \in 1..Len(errs) |->
                             errs[i].instancePath \o <<" ">> \o errs[i].message]]
        ELSE [valid |-> TRUE, errors |-> <<>>]

----------------------------------------------------------------------------
(* SchemaValidator, name-based: a process-wide singleton whose registry is *)
(* filled from the schema directory by the first validate().               *)

SCHEMA_BASE_PATH == <<"/cwd/", "schemas">>

UserFile  == <<"userSchema", ".json">>
UsersFile == <<"usersSchema", ".json">>
ErrorFile == <<"errorSchema", ".json">>
ModuleFile == <<"user.schema", ".ts">>

(* fs.readdirSync(SCHEMA_BASE_PATH), in name order                         *)
Directory == <<ErrorFile, ModuleFile, UserFile, UsersFile>>

(* JSON.parse(fs.readFileSync(file)): User, User[] and ErrorResponse[]     *)
FileDocument(file) ==
    CASE file = UserFile  -> userSchema
      [] file = UsersFile -> userArraySchema
      [] OTHER            -> errorResponseSchema

endsWith(name, suffix) == name # <<>> /\ name[Len(name)] = suffix

Healthy == [readable |-> TRUE, corrupt |-> {}]
Disks == {Healthy, [readable |-> FALSE, corrupt |-> {}]}
            \cup {[readable |-> TRUE, corrupt |-> {f}] : f \in {ErrorFile, UsersFile}}

(* the loop of loadAllSchemas over the directory listing: the registry it  *)
(* leaves and the error that ends it, if any                               *)
RECURSIVE addSchemas(_, _)
addSchemas(files, reg) ==
    IF files = <<>> THEN [registry |-> reg, raised |-> None]
    ELSE LET file == Head(files)
         IN  IF ~endsWith(file, ".json") THEN addSchemas(Tail(files), reg)
             ELSE IF file \in fsys.corrupt
             THEN [registry |-> reg,
                   raised |-> Some(<<"Unexpected token in JSON at position 0">>)]
             ELSE IF \E r \in reg : r.key = file
             THEN [registry |-> reg,
                   raised |-> Some(<<"schema with key or id \"">> \o file
                                   \o <<"\" already exists">>)]
             ELSE addSchemas(Tail(files),
                             reg \cup {[key |-> file, schema |-> FileDocument(file)]})

loadAllSchemasEveryTime ==
    LET r == addSchemas(Directory, {})
    IN  [initialized |-> r.raised = None, registry |-> r.registry,
         scans |-> scans + 1, raised |-> r.raised]

loadAllSchemas ==
    IF initialized
    THEN [initialized |-> TRUE, registry |-> registry, scans |-> scans,
          raised |-> None]
    ELSE IF ~fsys.readable
    THEN [initialized |-> FALSE, registry |-> registry, scans |-> scans + 1,
          raised |-> Some(<<"ENOENT: no such file or directory, scandir '">>
                          \o SCHEMA_BASE_PATH \o <<"'">>)]
    ELSE LET r == addSchemas(Directory, registry)
         IN  [initialized |-> r.raised = None, registry |-> r.registry,
              scans |-> scans + 1, raised |-> r.raised]

(* JSON.stringify(validate.errors, null, 2)                                *)
ErrorsValue(errs) ==
    Arr(0, [i \in 1..Len(errs) |->
               Obj(0, <<Member(<<"instancePath">>, Str(errs[i].instancePath)),
                        Member(<<"keyword">>, Str(<<errs[i].keyword>>)),
                        Member(<<"message">>, Str(errs[i].message))>>)])

ValidationResult(schema, data) ==
    LET errs == AjvErrors(1, schema, data, <<>>)
    IN  [valid |-> errs = <<>>,
         errors |-> IF errs = <<>> THEN None
                    ELSE Some(Serialize(ErrorsValue(errs), 2, 0))]

NotFound(schemaName) ==
    <<"Schema \"">> \o schemaName \o <<"\" not found in ">> \o SCHEMA_BASE_PATH

(* what one validate(schemaName, data) call does to the singleton and how  *)
(* it ends: an error raised, or a ValidationResult returned                *)
ValidatedByDefault(schemaName, data) ==
    LET load  == loadAllSchemas
        found == { r \in load.registry : r.key = schemaName }
    IN  [initialized |-> load.initialized, registry |-> load.registry,
         scans |-> load.scans,
         raised |-> load.raised,
         result |-> IF load.raised # None THEN None
                    ELSE IF found = {} THEN Some([valid |-> TRUE, errors |-> None])
                    ELSE Some(ValidationResult(The(found).schema, data))]

Validated(schemaName, data) ==
    LET load  == loadAllSchemas
        found == { r \in load.registry : r.key = schemaName }
    IN  [initialized |-> load.initialized, registry |-> load.registry,
         scans |-> load.scans,
         raised |-> IF load.raised # None THEN load.raised
                    ELSE IF found = {} THEN Some(NotFound(schemaName))
                    ELSE None,
         result |-> IF load.raised # None \/ found = {} THEN None
                    ELSE Some(ValidationResult(The(found).schema, data))]

MaxValidations == 3

validate(schemaName, data) ==
    /\ validations < MaxValidations
    /\ LET v == Validated(schemaName, data)
       IN  /\ initialized' = v.initialized
           /\ registry' = v.registry
           /\ scans' = v.scans
           /\ vres' = Some([validator |-> 1, call |-> validations + 1,
                            schemaName |-> schemaName, data |-> data,
                            raised |-> v.raised, result |-> v.result])
    /\ validations' = validations + 1
    /\ UNCHANGED <<bvars, rvars, fsys, verdict, args>>

(* the schema directory is put right while the tests run                   *)
Repair ==
    /\ fsys # Healthy
    /\ fsys' = Healthy
    /\ UNCHANGED <<bvars, rvars, initialized, registry, scans, validations, vres, verdict, args>>

----------------------------------------------------------------------------
(* shouldMatchSchema, in its two forms                                     *)

ShownPretty(v) == IF v.t = "undefined" THEN String(v) ELSE Serialize(v, 2, 0)

(* src/unnamed/part_005: shouldMatchSchema(received, schema), through the  *)
(* name-based singleton                                                    *)
shouldMatchSchemaTersely(received, schema) ==
    LET v == Validated(schema, received)
    IN  IF v.raised # None
        THEN Result(FALSE, <<"Failed to validate schema: ">> \o The(v.raised))
        ELSE Result(The(v.result).valid,
                    IF The(v.result).valid THEN <<"Schema validation passed">>
                    ELSE <<"Schema validation failed for ">> \o schema)

shouldMatchSchema(received, schema) ==
    LET v == Validated(schema, received)
    IN  IF v.raised # None
        THEN Result(FALSE,
               <<"Failed to validate schema: ">> \o The(v.raised))
        ELSE LET result == The(v.result)
             IN  Result(result.valid,
                      IF result.valid THEN <<"Schema validation passed">>
                      ELSE <<"Schema validation failed for ">> \o schema
                           \o <<":", "\n">> \o The(result.errors)
                           \o <<"\n", "\n", "Actual body:", "\n">>
                           \o ShownPretty(received))

(* src/utils/customMatchers.ts: shouldMatchSchema(received, resource,      *)
(* operation), through a document-based validator of its own               *)

(* path.resolve(`../schemas/${resource}.schema`): a path string            *)
resolve(resource) == <<"/", "schemas", "/">> \o resource \o <<".schema">>

(* value[key] on a string: its length, or undefined for the names used     *)
Property(kind, doc) == [kind |-> kind, doc |-> doc]
PropertyOfString(text, key) ==
    IF key = <<"length">> THEN Property("number", <<>>)
    ELSE Property("undefined", <<>>)

(* what the schema module of a resource exports under a name               *)
ModuleExports(resource, name) ==
    IF resource # <<"user">> THEN Property("undefined", <<>>)
    ELSE CASE name = <<"userSchema">>          -> Property("document", <<userSchema>>)
           [] name = <<"userArraySchema">>     -> Property("document", <<userArraySchema>>)
           [] name = <<"GET_users">>           -> Property("document", <<GET_users>>)
           [] name = <<"GET_usersSchema">>     -> Property("document", <<GET_users>>)
           [] name = <<"errorResponseSchema">> -> Property("document", <<errorResponseSchema>>)
           [] OTHER -> Property("undefined", <<>>)

shouldMatchSchemaByOperation(received, resource, operation) ==
    LET schemas == resolve(resource)
        first   == PropertyOfString(schemas, operation)
        schema  == IF first.kind # "undefined" THEN first
                   ELSE PropertyOfString(schemas, operation \o <<"Schema">>)
    IN  IF schema.kind = "undefined"
        THEN Result(FALSE,
               <<"Schema '">> \o operation \o <<"' not found in ">>
                          \o resource \o <<".schema.ts">>)
        ELSE IF schema.kind # "document"
        THEN Result(FALSE,
               <<"Error loading schema: ",
                            "schema must be object or boolean">>)
        ELSE LET result == validateDocument(schema.doc[1], received)
             IN  Result(result.valid,
                      IF result.valid
                      THEN <<"Expected response NOT to match schema ">>
                           \o resource \o <<".">> \o operation
                      ELSE <<"Schema validation failed for ">>
                           \o resource \o <<".">> \o operation \o <<":", "\n">>
                           \o JoinTexts(result.errors, <<"\n">>))

----------------------------------------------------------------------------
(* Bodies handed to the validator                                          *)

GoodEmail == Str(<<"a", "@", "b", ".", "c">>)
GoodUser ==
    Obj(11, <<Member(<<"id">>, Num(<<"7">>)), Member(<<"name">>, Str(<<"Ann">>)),
              Member(<<"email">>, GoodEmail), Member(<<"gender">>, Str(<<"male">>)),
              Member(<<"status">>, Str(<<"active">>))>>)

(* every object over the five User fields and two foreign ones: a field is *)
(* absent, well-formed or ill-formed                                       *)
UserFields == << <<"id">>, <<"name">>, <<"email">>, <<"gender">>, <<"status">> >>
ForeignFields == << <<"role">>, <<"age">> >>
FieldValue(field, shape) ==
    IF shape = "good" THEN GoodUser.kv[CHOOSE i \in 1..5 : UserFields[i] = field][2]
    ELSE IF field = <<"id">> THEN Str(<<"7">>)
    ELSE IF field = <<"email">> THEN Str(<<"a", "@", "b">>)
    ELSE IF field = <<"name">> THEN N1
    ELSE Str(<<"other">>)
Shapes == {"absent", "good", "bad"}
Candidate(shape, foreign) ==
    Obj(12, [i \in 1..Len(SelectSeq(UserFields, LAMBDA f : shape[f] # "absent")) |->
                LET f == SelectSeq(UserFields, LAMBDA g : shape[g] # "absent")[i]
                IN  Member(f, FieldValue(f, shape[f]))]
            \o [i \in 1..Len(SelectSeq(ForeignFields, LAMBDA f : f \in foreign)) |->
                Member(SelectSeq(ForeignFields, LAMBDA g : g \in foreign)[i], N1)])
Range(f) == { f[i] : i \in DOMAIN f }
Candidates ==
    { Candidate(shape, foreign) :
        shape \in [Range(UserFields) -> Shapes], foreign \in SUBSET Range(ForeignFields) }

SchemaNames == {UserFile, UsersFile, <<"userSchema">>}
BadUser ==
    Candidate([f \in Range(UserFields) |->
                  IF f = <<"email">> THEN "absent"
                  ELSE IF f = <<"id">> THEN "bad" ELSE "good"], {<<"role">>})
ReceivedBodies == {GoodUser, BadUser, Arr(13, <<GoodUser>>)}

Resources == {<<"user">>, <<"users">>}
Operations == {<<"GET_users">>, <<"user">>, <<"POST_user">>, <<"length">>}

(* new SchemaValidator().validate(schema, data) with a document of         *)
(* src/schemas/user.schema.ts                                              *)
ValidateDocument ==
    /\ args # None /\ The(args).matcher = "validate"
    /\ LET c == The(args)
       IN  vres' = Some([validator |-> 2, call |-> 0, schemaName |-> c.expected.s,
                         data |-> c.received, raised |-> None,
                         result |-> Some(validateDocument(
                             ModuleExports(<<"user">>, c.expected.s).doc[1],
                             c.received))])
    /\ UNCHANGED <<bvars, rvars, fsys, initialized, registry, scans, validations, verdict, args>>

(* await expect(received).shouldMatchSchema(resource, operation)           *)
ExpectShouldMatchSchemaByOperation ==
    /\ args # None /\ The(args).matcher = "shouldMatchSchema"
    /\ LET c == The(args)
       IN  verdict' = Some(Assertion(c.matcher, c.rev, c.received, c.expected, FALSE, 0,
                               shouldMatchSchemaByOperation(
                                   c.received, c.expected.kv[1][2].s,
                                   c.expected.kv[2][2].s)))
    /\ UNCHANGED <<bvars, rvars, fsys, initialized, registry, scans, validations, vres, args>>

(* the calls the tests make                                                *)
Calls ==
    {Call("shouldEqual", 2, r, e) : r \in Values, e \in Values}
    \cup {Call("shouldContain", rev, r, e) :
             rev \in MatcherRevisions, r \in Values, e \in Values}
    \cup {Call("shouldBeValidEmail", 2, r, Undefined) : r \in EmailCandidates}
    \cup {Call("validate", 2, d, Str(<<"userSchema">>)) : d \in Candidates}
    \cup {Call("shouldMatchSchema", 1, r, Arr(0, <<Str(res), Str(op)>>)) :
             r \in ReceivedBodies, res \in Resources, op \in Operations}

(* await expect(received).shouldMatchSchema(schema), or with .not          *)
ExpectShouldMatchSchema(received, schema, negated) ==
    /\ validations < MaxValidations
    /\ LET v == Validated(schema, received)
       IN  /\ initialized' = v.initialized
           /\ registry' = v.registry
           /\ scans' = v.scans
           /\ vres' = Some([validator |-> 1, call |-> validations + 1,
                            schemaName |-> schema, data |-> received,
                            raised |-> v.raised, result |-> v.result])
    /\ validations' = validations + 1
    /\ verdict' = Some(Assertion("shouldMatchSchema", 2, received, Str(schema),
                                 negated, validations + 1,
                                 shouldMatchSchema(received, schema)))
    /\ UNCHANGED <<bvars, rvars, fsys, args>>

----------------------------------------------------------------------------
(* The runner configuration and the runner's scheduling of a run           *)

(* process.env.CI after dotenv.config(): unset, or the text of the         *)
(* variable (the documented .env gives CI=false)                           *)
CIValues == {None, Some(""), Some("false"), Some("true"), Some("1")}

(* the truth value a condition takes for process.env.CI: undefined and     *)
(* the empty string are falsy, every other string is truthy                *)
Truthy(v) == v # None /\ The(v) # ""

(* defineConfig({ forbidOnly: !!process.env.CI,                            *)
(*                retries: process.env.CI ? 2 : 0,                         *)
(*                workers: process.env.CI ? 3 : 2, ... })                  *)
defineConfig(v) ==
    [fullyParallel |-> TRUE,
     forbidOnly    |-> Truthy(v),
     retries       |-> IF Truthy(v) THEN 2 ELSE 0,
     workers       |-> IF Truthy(v) THEN 3 ELSE 2]

(* the tests of a run, as the runner keeps them                            *)
SuiteSize == 3
Queued == [state |-> "queued", attempts |-> 0]
Running == { t \in DOMAIN jobs : jobs[t].state = "running" }

(* the configuration file is evaluated once, before any test runs         *)
LoadConfig ==
    /\ config = None
    /\ config' = Some(defineConfig(ci))
    /\ UNCHANGED <<bvars, svars, ci, jobs, net, users, nextId, others, run>>

(* a free worker takes a queued test; at most `workers` run at a time      *)
StartJob(t) ==
    /\ config # None
    /\ jobs[t].state = "queued"
    /\ Cardinality(Running) < The(config).workers
    /\ jobs' = [jobs EXCEPT ![t] = [state |-> "running", attempts |-> @.attempts + 1]]
    /\ UNCHANGED <<bvars, svars, ci, config, net, users, nextId, others, run>>

(* a test ends; a failed one is queued again until `retries` are used up   *)
FinishJob(t, passed) ==
    /\ jobs[t].state = "running"
    /\ jobs' = [jobs EXCEPT ![t].state =
                   IF passed THEN "passed"
                   ELSE IF jobs[t].attempts <= The(config).retries THEN "queued"
                   ELSE "failed"]
    /\ UNCHANGED <<bvars, svars, ci, config, net, users, nextId, others, run>>

----------------------------------------------------------------------------
(* The service under test, as its wire contract describes it               *)

Seeded == 1
OthersBudget == 1

(* params({ page: 1, per_page: 10 }): the users that fill the page read   *)
FullPage == 10

MaxTests == 1

(* a user: its id and the e-mail address it was created with               *)
User(id, email) == [id |-> id, email |-> email]
SeededUsers == [i \in 1..Seeded |-> User(Seeded + 1 - i, <<"s", Seeded + 1 - i>>)]
Ids(us) == [i \in 1..Len(us) |-> us[i].id]

(* an answer: the status and, as the case may be, a user, a list of users  *)
(* or a list of { field, message } errors                                  *)
Reply(status, user, list, errors) ==
    [status |-> status, user |-> user, list |-> list, errors |-> errors]
NoReply == Reply(0, None, <<>>, <<>>)

FieldError(field, message) == [field |-> field, message |-> message]
Blank == FieldError(<<"email">>,
            <<"c", "a", "n", "'", "t", " ", "b", "e", " ", "b", "l", "a", "n", "k">>)
Taken == FieldError(<<"email">>,
            <<"h", "a", "s", " ", "a", "l", "r", "e", "a", "d", "y", " ",
              "b", "e", "e", "n", " ", "t", "a", "k", "e", "n">>)

(* the body the service answers for a user: the generated name, gender    *)
(* and status echoed, the id it assigned                                   *)
UserBody(u) ==
    Obj(0, <<Member(<<"id">>, Num(<<ToString(u.id)>>)),
             Member(<<"name">>, Str(<<"Ann Lee">>)),
             Member(<<"email">>, Str(<<u.email[1], ".", ToString(u.email[2]),
                                       "@", "test", ".", "com">>)),
             Member(<<"gender">>, Str(<<"male">>)),
             Member(<<"status">>, Str(<<"active">>))>>)

(* page `page` of the list, `perPage` users to a page, newest first        *)
Page(us, page, perPage) ==
    LET from == (page - 1) * perPage + 1
        to   == IF page * perPage < Len(us) THEN page * perPage ELSE Len(us)
    IN  IF from > to THEN <<>> ELSE SubSeq(us, from, to)

Drop(us, id) == SelectSeq(us, LAMBDA u : u.id # id)

(* the service answers one request: 401 without a bearer token; POST       *)
(* /users creates (201) unless the e-mail is missing or taken (422); GET   *)
(* /users lists a page; GET and PUT /users/{id} answer 200 or 404; DELETE  *)
(* /users/{id} removes the user (204) or answers 404                       *)
Serve(req, us, next) ==
    LET known  == \E i \in 1..Len(us) : us[i].id = req.id
        answer(reply) == [reply |-> reply, users |-> us, nextId |-> next]
    IN  IF ~\E k \in DOMAIN req.headers : LowerName(k) = "authorization"
        THEN answer(Reply(401, None, <<>>, <<>>))
        ELSE IF req.method = "post"
        THEN IF req.data = None \/ The(req.data).email = <<>>
             THEN answer(Reply(422, None, <<>>, <<Blank>>))
             ELSE IF \E i \in 1..Len(us) : us[i].email = The(req.data).email
             THEN answer(Reply(422, None, <<>>, <<Taken>>))
             ELSE [reply |-> Reply(201, Some(User(next, The(req.data).email)), <<>>, <<>>),
                   users |-> <<User(next, The(req.data).email)>> \o us,
                   nextId |-> next + 1]
        ELSE IF req.method = "get" /\ req.id = 0
        THEN answer(Reply(200, None,
                          IF req.params = None THEN Page(us, 1, 10)
                          ELSE Page(us, The(req.params).page, The(req.params).per_page),
                          <<>>))
        ELSE IF ~known
        THEN answer(Reply(404, None, <<>>, <<>>))
        ELSE IF req.method = "delete"
        THEN [reply |-> Reply(204, None, <<>>, <<>>), users |-> Drop(us, req.id),
              nextId |-> next]
        ELSE answer(Reply(200, Some(CHOOSE u \in Range(us) : u.id = req.id), <<>>, <<>>))

----------------------------------------------------------------------------
(* The tests of the suite, run by one worker against the service while     *)
(* the tests of the other workers create and delete users of their own     *)

Payload(email) == [email |-> email]

(* api.reset().path(...).params(q).body(d) followed by a verb method: the  *)
(* request the builder hands to the HTTP client                            *)
Chain(verb, id, q, d) ==
    [method  |-> verb,
     id      |-> id,
     params  |-> IF "params" \in OptionKeys(verb) THEN q ELSE None,
     data    |-> IF "data" \in OptionKeys(verb) THEN d ELSE None,
     headers |-> getDefaultHeaders(revision, env)]

(* what can become of a request: answered by the service, answered 429 by  *)
(* its rate limiter, or lost by the transport                              *)
Exchanges == IF net = "reliable" THEN {"served"} ELSE {"served", "throttled", "ETIMEDOUT"}

(* one awaited verb call: how the verb method ends, what was answered and  *)
(* the service it leaves                                                   *)
Exchange(x, verb, json, expectedStatus, id, q, d) ==
    LET c == [NoCall EXCEPT !.pc = "awaiting", !.verb = verb, !.json = json,
                            !.expected = expectedStatus, !.dispatches = 1]
        s == Serve(Chain(verb, id, q, d), users, nextId)
    IN  IF x = "ETIMEDOUT"
        THEN [call |-> Propagate(c, x), reply |-> NoReply,
              users |-> users, nextId |-> nextId]
        ELSE IF x = "throttled"
        THEN [call |-> Settle(c, 429, "{}"), reply |-> Reply(429, None, <<>>, <<>>),
              users |-> users, nextId |-> nextId]
        ELSE [call |-> Settle(c, s.reply.status, IF s.reply.status = 204 THEN "" ELSE "{}"),
              reply |-> s.reply, users |-> s.users, nextId |-> s.nextId]

Returned(e) == e.call.outcome \in {"response", "json"}

(* the statements of a test that matter here: each awaited verb call with  *)
(* the statements that follow it up to the next await                      *)
Step(op, expected, page, perPage, then) ==
    [op |-> op, expected |-> expected, page |-> page, perPage |-> perPage,
     then |-> then]

Program(test) ==
    CASE test = "crud" ->
            <<Step("post", 201, 0, 0, <<"expect">>),
              Step("list", 200, 1, 10, <<"expect", "found">>),
              Step("put", 200, 0, 0, <<"expect">>),
              Step("delete", 204, 0, 0, <<>>),
              Step("get", 404, 0, 0, <<>>)>>
      [] test = "quick" ->
            <<Step("post", 201, 0, 0, <<"expect">>),
              Step("list", 200, 1, 10, <<"expect", "found">>),
              Step("delete", 204, 0, 0, <<>>),
              Step("list", 200, 1, 10, <<"expect", "gone">>)>>
      [] test = "create" ->
            <<Step("post", 201, 0, 0, <<"expect", "push">>)>>
      [] test = "duplicate" ->
            <<Step("post", 201, 0, 0, <<"push">>),
              Step("repost", 422, 0, 0, <<"taken">>)>>
      [] test = "multiple" ->
            <<Step("post", 201, 0, 0, <<"push">>),
              Step("post", 201, 0, 0, <<"push">>),
              Step("post", 201, 0, 0, <<"push", "expect">>)>>
      [] test = "pagination" ->
            <<Step("list", 200, 1, 5, <<"keep">>),
              Step("list", 200, 2, 5, <<"disjoint">>)>>

SmokeSuite == {"crud", "quick"}
GetSuite == {"pagination"}
PostSuite == {"create", "duplicate", "multiple"}
Kinds == SmokeSuite \cup GetSuite \cup PostSuite

NoHook == [at |-> 0, recorded |-> <<>>, swept |-> <<>>, failures |-> 0, outcome |-> ""]

(* what the test saw last: the statement, the id it was about, the status  *)
(* answered, the user or the errors in the body, whether the test's user   *)
(* is in the list answered, and whether the list shares an id with page 1  *)
NoAnswer == [step |-> 0, op |-> "", of |-> 0, status |-> 0, user |-> None,
             errors |-> <<>>, listed |-> None, overlap |-> None]

(* the worker between tests; createdUserIds is the list of the POST suite  *)
NoRun == [test |-> "", serial |-> 0, pc |-> 0, phase |-> "idle", verdict |-> "",
          createdUserIds |-> <<>>, payloads |-> 0, userId |-> 0, mine |-> <<>>,
          last |-> NoAnswer, page1 |-> <<>>, hook |-> NoHook]

(* the loop of the afterEach hook is over: createdUserIds = []             *)
Swept(r) ==
    IF r.phase = "hook" /\ r.hook.at > Len(r.createdUserIds)
    THEN [r EXCEPT !.createdUserIds = <<>>, !.hook.outcome = "passed", !.phase = "idle"]
    ELSE r

(* the test body is over: the afterEach hook of the POST suite runs        *)
Ended(r, passed) ==
    IF r.test \in PostSuite
    THEN Swept([r EXCEPT !.verdict = IF passed THEN "passed" ELSE "failed",
                         !.phase = "hook", !.page1 = <<>>,
                         !.hook = [NoHook EXCEPT !.at = 1, !.recorded = r.createdUserIds]])
    ELSE [r EXCEPT !.verdict = IF passed THEN "passed" ELSE "failed",
                   !.phase = "idle", !.page1 = <<>>]

Advance(r) ==
    IF r.pc = Len(Program(r.test)) THEN Ended(r, TRUE) ELSE [r EXCEPT !.pc = @ + 1]

(* the statements after an awaited call, up to the first that throws:      *)
(* `holds` says whether the assertions on fields the service chooses (the  *)
(* schema of the body, the echoed name, gender and status) hold            *)
RECURSIVE Then(_, _, _, _)
Then(r, ops, reply, holds) ==
    IF ops = <<>> THEN Advance(r)
    ELSE LET op == Head(ops)
             ids == Ids(reply.list)
             passes ==
                CASE op = "expect"   -> holds
                  [] op = "found"    -> r.userId \in Range(ids)
                  [] op = "gone"     -> r.userId \notin Range(ids)
                  [] op = "disjoint" -> ~\E i \in 1..Len(r.page1) :
                                            r.page1[i] \in Range(ids)
                  [] op = "taken"    ->
                        \E i \in 1..Len(reply.errors) :
                            /\ reply.errors[i].field = <<"email">>
                            /\ \A j \in 1..(i - 1) : reply.errors[j].field # <<"email">>
                            /\ shouldContain(2, Str(reply.errors[i].message),
                                             Str(<<"t", "a", "k", "e", "n">>)).pass
                  [] OTHER           -> TRUE
             next ==
                CASE op = "push" -> [r EXCEPT !.createdUserIds = Append(@, r.userId)]
                  [] op = "keep" -> [r EXCEPT !.page1 = ids]
                  [] OTHER       -> r
         IN  IF passes THEN Then(next, Tail(ops), reply, holds) ELSE Ended(r, FALSE)

Current == Program(run.test)[run.pc]

StartTest(test) ==
    /\ run.phase = "idle"
    /\ run.serial < MaxTests
    /\ run' = [NoRun EXCEPT !.test = test, !.serial = run.serial + 1, !.pc = 1,
                            !.phase = "body",
                            !.createdUserIds = run.createdUserIds,
                            !.payloads = run.payloads]
    /\ UNCHANGED <<bvars, svars, ci, config, jobs, net, users, nextId, others>>

(* a statement that awaits a verb method of the builder, and what follows  *)
(* it up to the next await                                                 *)
Request(x, holds) ==
    /\ run.phase = "body"
    /\ x \in Exchanges
    /\ LET op   == Current.op
           n    == IF op = "post" THEN run.payloads + 1 ELSE run.payloads
           verb == IF op \in {"post", "repost"} THEN "post"
                   ELSE IF op = "list" THEN "get" ELSE op
           id   == IF op \in {"get", "put", "delete"} THEN run.userId ELSE 0
           q    == IF op = "list"
                   THEN Some([page |-> Current.page, per_page |-> Current.perPage])
                   ELSE None
           d    == IF verb = "post" THEN Some(Payload(<<"w", n>>))
                   ELSE IF op = "put" THEN Some(Payload(<<>>)) ELSE None
           e    == Exchange(x, verb, op \notin {"get", "delete"}, Current.expected, id, q, d)
           ids  == Ids(e.reply.list)
           seen == [run EXCEPT
                      !.payloads = n,
                      !.mine = IF e.reply.status = 201
                               THEN Append(@, The(e.reply.user).id) ELSE @,
                      !.userId = IF op = "post" /\ e.reply.status = 201
                                 THEN The(e.reply.user).id ELSE @,
                      !.last = [step |-> run.pc, op |-> op, of |-> id,
                                status |-> e.reply.status, user |-> e.reply.user,
                                errors |-> e.reply.errors,
                                listed |-> IF op = "list" /\ e.reply.status = 200
                                           THEN Some(run.userId \in Range(ids))
                                           ELSE None,
                                overlap |-> IF op = "list" /\ e.reply.status = 200
                                            THEN Some(\E i \in 1..Len(run.page1) :
                                                        run.page1[i] \in Range(ids))
                                            ELSE None]]
       IN  /\ run' = IF Returned(e) THEN Then(seen, Current.then, e.reply, holds)
                     ELSE Ended(seen, FALSE)
           /\ users' = e.users
           /\ nextId' = e.nextId
    /\ UNCHANGED <<bvars, svars, ci, config, jobs, net, others>>

(* Faulty variant of afterEach: no try/catch around the delete.            *)
afterEachUncaught(r, returned) ==
    IF returned
    THEN [r EXCEPT !.hook.at = @ + 1,
                   !.hook.swept = Append(@, r.createdUserIds[r.hook.at])]
    ELSE [r EXCEPT !.hook.swept = Append(@, r.createdUserIds[r.hook.at]),
                   !.hook.failures = @ + 1,
                   !.hook.outcome = "failed",
                   !.phase = "idle"]

(* one turn of the loop of the afterEach hook: the delete is awaited       *)
(* inside try/catch, a failure is logged                                   *)
afterEach(r, returned) ==
    [r EXCEPT !.hook.at = @ + 1,
              !.hook.swept = Append(@, r.createdUserIds[r.hook.at]),
              !.hook.failures = IF returned THEN @ ELSE @ + 1]

(* for (const userId of createdUserIds) { try { await ...deleteRequest(204) *)
(* } catch ... }; createdUserIds = []                                      *)
AfterEachDelete(x) ==
    /\ run.phase = "hook"
    /\ run.hook.at <= Len(run.createdUserIds)
    /\ x \in Exchanges
    /\ LET e == Exchange(x, "delete", FALSE, 204, run.createdUserIds[run.hook.at],
                         None, None)
       IN  /\ run' = Swept(afterEach(run, Returned(e)))
           /\ users' = e.users
           /\ nextId' = e.nextId
    /\ UNCHANGED <<bvars, svars, ci, config, jobs, net, others>>

(* a test of another worker creates a user of its own                      *)
OtherCreates ==
    /\ others.budget > 0
    /\ LET s == Serve(Chain("post", 0, None, Some(Payload(<<"o", nextId>>))),
                      users, nextId)
       IN  /\ users' = s.users
           /\ nextId' = s.nextId
           /\ others' = [alive |-> Append(others.alive, nextId),
                         budget |-> others.budget - 1]
    /\ UNCHANGED <<bvars, svars, ci, config, jobs, net, run>>

(* a test of another worker, or its afterEach hook, deletes a user it      *)
(* created                                                                 *)
OtherDeletes ==
    /\ others.alive # <<>>
    /\ LET s == Serve(Chain("delete", Head(others.alive), None, None), users, nextId)
       IN  /\ users' = s.users
           /\ nextId' = s.nextId
    /\ others' = [others EXCEPT !.alive = Tail(@)]
    /\ UNCHANGED <<bvars, svars, ci, config, jobs, net, run>>

----------------------------------------------------------------------------
InitBuilder ==
    /\ revision \in Revisions
    /\ env \in EnvTokens
    /\ heap = [i \in ObjIds |-> Unallocated]
    /\ api = [b \in Tests |-> FieldInit]
    /\ call = [b \in Tests |-> NoCall]
    /\ wire = [b \in Tests |-> None]
    /\ hdrOp = [b \in Tests |-> "default"]
    /\ ctorAuth = [b \in Tests |-> None]
    /\ lastPath = [b \in Tests |-> None]
    /\ prevParams = [b \in Tests |-> None]
    /\ resetFrom = [b \in Tests |-> None]
    /\ sinceReset = [b \in Tests |-> {}]

(* the singleton as the module creates it; no assertion made yet           *)
InitValidator ==
    /\ initialized = FALSE
    /\ registry = {}
    /\ scans = 0
    /\ validations = 0
    /\ vres = None
    /\ verdict = None

(* no configuration loaded, no test started, the service as it stands      *)
InitRunner ==
    /\ ci = None
    /\ config = None
    /\ jobs = [t \in 1..SuiteSize |-> Queued]
    /\ net = "reliable"
    /\ users = SeededUsers
    /\ nextId = Seeded + 1
    /\ others = [alive |-> <<>>, budget |-> OthersBudget]
    /\ run = NoRun

Init ==
    /\ InitBuilder
    /\ InitValidator
    /\ InitRunner
    /\ fsys = Healthy
    /\ args = None

(* One test configuring its builder and sending requests.                  *)
Next ==
    \/ \E t \in EnvTokens : SetEnv(t)
    \/ \E b \in Solo :
        \/ Fixture(b)
        \/ \E p \in Paths : path(b, p)
        \/ \E m \in ParamMaps : params(b, m)
        \/ \E d \in Bodies : body(b, d)
        \/ \E h \in HeaderMaps : headers(b, h)
        \/ withoutAuth(b)
        \/ reset(b)
        \/ getRequest(b, 200)
        \/ postRequest(b, 200)
        \/ putRequest(b, 200)
        \/ patchRequest(b, 200)
        \/ deleteRequest(b, 200)
        \/ \E s \in Statuses : Respond(b, s, "[]")
        \/ \E e \in TransportErrors : Reject(b, e)

Spec == Init /\ [][Next]_vars

(* One test calling every verb method, against every outcome.              *)
NextVerbs ==
    \E b \in Solo :
        \/ Fixture(b)
        \/ \E p \in Paths : path(b, p)
        \/ \E d \in Bodies : body(b, d)
        \/ reset(b)
        \/ \E e \in Statuses :
            \/ getRequest(b, e)
            \/ postRequest(b, e)
            \/ putRequest(b, e)
            \/ patchRequest(b, e)
            \/ deleteRequest(b, e)
            \/ getRequestJson(b, e)
            \/ postRequestJson(b, e)
            \/ putRequestJson(b, e)
            \/ patchRequestJson(b, e)
            \/ deleteRequestJson(b, e)
        \/ \E s \in Statuses, text \in ResponseTexts : Respond(b, s, text)
        \/ \E e \in TransportErrors : Reject(b, e)

SpecVerbs == Init /\ [][NextVerbs]_vars

(* Two tests in parallel workers, each configuring its own builder.        *)
NextPair ==
    \E b \in Tests :
        \/ Fixture(b)
        \/ path(b, "/users")
        \/ params(b, "page" :> 2)
        \/ \E d \in Bodies : body(b, d)
        \/ headers(b, "authorization" :> "Bearer lower")
        \/ withoutAuth(b)
        \/ reset(b)

InitPair ==
    /\ Init
    /\ env = "tokenA"

SpecPair == InitPair /\ [][NextPair]_vars

(* The assertion extensions and the document-based validator, each        *)
(* applied to the arguments the test was written with.                     *)
NextMatchers ==
    \/ ExpectShouldEqual
    \/ ExpectShouldContain
    \/ ExpectShouldBeValidEmail
    \/ ValidateDocument
    \/ ExpectShouldMatchSchemaByOperation

InitMatchers ==
    /\ InitBuilder /\ revision = 1 /\ env = "tokenA"
    /\ InitValidator
    /\ InitRunner
    /\ fsys = Healthy
    /\ args \in {Some(c) : c \in Calls}

SpecMatchers == InitMatchers /\ [][NextMatchers]_vars

(* Tests of one worker process using the name-based validator.             *)
NextSchemas ==
    \/ \E n \in SchemaNames, d \in ReceivedBodies : validate(n, d)
    \/ \E n \in SchemaNames, d \in ReceivedBodies, negated \in BOOLEAN :
          ExpectShouldMatchSchema(d, n, negated)
    \/ Repair

InitSchemas ==
    /\ InitBuilder /\ revision = 1 /\ env = "tokenA"
    /\ InitValidator
    /\ InitRunner
    /\ fsys \in Disks
    /\ args = None

SpecSchemas == InitSchemas /\ [][NextSchemas]_vars

(* A run of the suite: the configuration is loaded, then the runner hands  *)
(* the tests to its workers.                                               *)
NextConfig ==
    \/ LoadConfig
    \/ \E t \in 1..SuiteSize :
        \/ StartJob(t)
        \/ \E passed \in BOOLEAN : FinishJob(t, passed)

InitConfig ==
    /\ InitBuilder /\ revision = 1 /\ env = "tokenA"
    /\ InitValidator
    /\ fsys = Healthy
    /\ args = None
    /\ ci \in CIValues
    /\ config = None
    /\ jobs = [t \in 1..SuiteSize |-> Queued]
    /\ net = "reliable"
    /\ users = SeededUsers
    /\ nextId = Seeded + 1
    /\ others = [alive |-> <<>>, budget |-> OthersBudget]
    /\ run = NoRun

SpecConfig == InitConfig /\ [][NextConfig]_vars

(* One worker running the smoke flow and tests of the POST suite, with its *)
(* afterEach hook, while the other workers run theirs against the same     *)
(* service; requests may be throttled or lost.                             *)
NextSuite ==
    \/ \E test \in {"crud"} \cup PostSuite : StartTest(test)
    \/ \E x \in {"served", "throttled", "ETIMEDOUT"} :
        \/ \E holds \in BOOLEAN : Request(x, holds)
        \/ AfterEachDelete(x)
    \/ OtherCreates
    \/ OtherDeletes

InitSuite ==
    /\ InitBuilder /\ env = "tokenA"
    /\ InitValidator
    /\ fsys = Healthy
    /\ args = None
    /\ ci = None
    /\ config = Some(defineConfig(ci))
    /\ jobs = [t \in 1..SuiteSize |-> Queued]
    /\ net \in {"reliable", "lossy"}
    /\ users = SeededUsers
    /\ nextId = Seeded + 1
    /\ others = [alive |-> <<>>, budget |-> OthersBudget]
    /\ run = NoRun

SpecSuite == InitSuite /\ [][NextSuite]_vars

(* One worker running a test that reads the list of users while the other  *)
(* workers create and delete as many users as fill a page.                 *)
NextRace ==
    \/ \E test \in {"quick"} \cup GetSuite : StartTest(test)
    \/ \E holds \in BOOLEAN : Request("served", holds)
    \/ OtherCreates
    \/ OtherDeletes

InitRace ==
    /\ InitBuilder /\ env = "tokenA"
    /\ InitValidator
    /\ fsys = Healthy
    /\ args = None
    /\ ci = None
    /\ config = Some(defineConfig(ci))
    /\ jobs = [t \in 1..SuiteSize |-> Queued]
    /\ net = "reliable"
    /\ users = SeededUsers
    /\ nextId = Seeded + 1
    /\ others = [alive |-> <<>>, budget |-> FullPage]
    /\ run = NoRun

SpecRace == InitRace /\ [][NextRace]_vars

----------------------------------------------------------------------------
(* Properties                                                              *)

DefaultNames == {"Accept", "Content-Type", "Authorization"}

(* the builder's configuration as a request would see it                   *)
Config(b) == [endpoint |-> api[b].endpoint, params |-> api[b].requestParams,
              body |-> api[b].requestBody, headers |-> HeadersOf(b)]

HasDefaultHeaders(h) ==
    /\ DOMAIN h = DefaultNames
    /\ h["Accept"] = "application/json"
    /\ h["Content-Type"] = "application/json"

(* C1: reset() leaves the endpoint empty, params and body absent and the   *)
(* header map exactly {Accept, Content-Type, Authorization}; a request     *)
(* dispatched after reset() with no later headers()/withoutAuth() carries  *)
(* exactly those three headers, and no params or body unless they were set *)
(* after the reset.                                                        *)
C1_ResetRestoresDefaults ==
    /\ [][\A b \in Tests : reset(b) =>
            /\ api'[b].endpoint = ""
            /\ api'[b].requestParams = None
            /\ api'[b].requestBody = None
            /\ HasDefaultHeaders(heap'[api'[b].requestHeaders])]_vars
    /\ [](\A b \in Tests : \A req \in wire[b] :
            resetFrom[b] # None =>
                /\ HasDefaultHeaders(req.headers)
                /\ "params" \notin sinceReset[b] => req.params = None
                /\ "body" \notin sinceReset[b] => req.data = None)

(* a request in flight after withoutAuth(), params(), body() and then      *)
(* reset(): it carries Authorization again                                 *)
C1_Witness ==
    \E b \in Tests : \E req \in wire[b] :
        /\ resetFrom[b] = Some(TRUE)
        /\ sinceReset[b] = {}
        /\ "Authorization" \in DOMAIN req.headers

(* C2: a verb method returns the response if and only if the actual status *)
(* equals expectedStatus; on a mismatch it fails at once, returns nothing, *)
(* and the failure message names the expected and the actual status.       *)
C2_StatusAssertion ==
    \A b \in Tests :
        LET c == call[b] IN
        (c.pc = "done" /\ c.outcome \notin {"threw", "TypeError"}) =>
            /\ (c.outcome \in {"response", "json", "SyntaxError"}) <=> (c.actual = c.expected)
            /\ ~c.json => ((c.outcome = "response") <=> (c.actual = c.expected))
            /\ c.actual # c.expected =>
                /\ c.outcome = "AssertionError"
                /\ c.dispatches = 1 /\ c.parses = 0
                /\ ToString(c.expected) \in Range(c.message)
                /\ ToString(c.actual) \in Range(c.message)

C2_Witness ==
    \E b \in Tests :
        /\ call[b].pc = "done" /\ ~call[b].json
        /\ call[b].expected = 200 /\ call[b].actual = 401
        /\ call[b].outcome = "AssertionError"

(* C3: one invocation of a verb method dispatches exactly one HTTP         *)
(* request whatever the outcome, and a transport failure raised by the     *)
(* HTTP client reaches the caller unchanged.                               *)
C3_OneDispatchNoWrap ==
    \A b \in Tests :
        LET c == call[b] IN
        /\ c.pc = "awaiting" => c.dispatches = 1 /\ wire[b] # None
        /\ (c.pc = "done" /\ c.outcome # "TypeError") => c.dispatches = 1 /\ wire[b] = None
        /\ c.raised # "" => c.outcome = "threw" /\ c.error = c.raised
        /\ c.outcome = "threw" => c.raised \in TransportErrors

C3_Witness ==
    \E b \in Tests :
        /\ call[b].pc = "done" /\ call[b].dispatches = 1
        /\ call[b].outcome = "threw" /\ call[b].error = "ETIMEDOUT"

(* C4: after withoutAuth(), the request dispatched by the next verb call   *)
(* (no headers() or reset() in between) carries no authorization header,   *)
(* header names being case-insensitive, whatever headers() calls came      *)
(* before the withoutAuth().                                               *)
C4_WithoutAuthSendsNoAuthorization ==
    \A b \in Tests : \A req \in wire[b] :
        hdrOp[b] = "withoutAuth" =>
            \A k \in DOMAIN req.headers : LowerName(k) # "authorization"

(* C5: the Authorization value is the one installed at construction across *)
(* any sequence of operations, also when the environment value changes     *)
(* before a reset(), unless headers() or withoutAuth() changed it since.   *)
C5_TokenFixedAtConstruction ==
    \A b \in Tests :
        (Constructed(b) /\ hdrOp[b] = "default") =>
            /\ "Authorization" \in DOMAIN HeadersOf(b)
            /\ Some(HeadersOf(b)["Authorization"]) = ctorAuth[b]

(* the ...Json contract for one settled or pending invocation              *)
JsonContract(b) ==
    LET c == call[b] IN
    /\ c.pc = "awaiting" => wire[b] = Some(RequestOf(b, c.verb))
    /\ c.pc = "done" =>
        /\ c.dispatches = 1
        /\ c.raised = "" =>
            /\ c.actual = c.expected => c.parses = 1 /\ c.outcome \in {"json", "SyntaxError"}
            /\ c.actual # c.expected => c.parses = 0 /\ c.outcome = "AssertionError"
        /\ c.raised # "" => c.parses = 0

(* C6, as claimed: each of get, post, put, patch and delete has a ...Json  *)
(* counterpart that performs the same call with the same status assertion  *)
(* and parses the body only after the assertion passed.                    *)
C6_EveryVerbHasJson ==
    \A b \in Tests : call[b].json => JsonContract(b)

(* C6, amended: get, post, put and patch have such a counterpart; delete   *)
(* has none, and calling it sends nothing.                                 *)
C6_FourVerbsHaveJson ==
    \A b \in Tests :
        /\ (call[b].json /\ call[b].verb \in JsonVerbs) => JsonContract(b)
        /\ (call[b].json /\ call[b].verb \notin JsonVerbs) =>
                call[b].outcome = "TypeError" /\ call[b].dispatches = 0 /\ wire[b] = None

C6_Witness ==
    \E b \in Tests :
        /\ call[b].pc = "done" /\ call[b].json /\ call[b].verb = "patch"
        /\ call[b].actual # call[b].expected
        /\ call[b].parses = 0 /\ call[b].outcome = "AssertionError"

(* C7: every request dispatched by a verb method targets the project's     *)
(* baseURL concatenated with the path most recently given to path(), also  *)
(* before any path() call and after reset() without a new path().          *)
C7_TargetsBaseURLPlusPath ==
    \A b \in Tests : \A req \in wire[b] :
        req.url = ProjectBaseURL \o (IF lastPath[b] = None THEN "" ELSE The(lastPath[b]))

(* C8: headers(h) merges h into the current header map: every key of h     *)
(* gets h's value, every other key keeps its value, and path, params and   *)
(* body are unchanged.                                                     *)
C8_HeadersMerge ==
    [][\A b \in Tests : \A h \in HeaderMaps : headers(b, h) =>
        LET old == HeadersOf(b)
            new == heap'[api'[b].requestHeaders]
        IN  /\ DOMAIN new = (DOMAIN old) \cup (DOMAIN h)
            /\ \A k \in DOMAIN h : new[k] = h[k]
            /\ \A k \in (DOMAIN old) \ (DOMAIN h) : new[k] = old[k]
            /\ api'[b].endpoint = api[b].endpoint
            /\ api'[b].requestParams = api[b].requestParams
            /\ api'[b].requestBody = api[b].requestBody]_vars

(* two headers() calls accumulated on top of the defaults                  *)
C8_Witness ==
    \E b \in Tests :
        /\ hdrOp[b] = "headers"
        /\ DOMAIN HeadersOf(b) = DefaultNames \cup {"authorization"}
        /\ HeadersOf(b)["Content-Type"] = "text/plain"
        /\ HeadersOf(b)["Accept"] = "application/json"

(* C9: params(m) replaces the whole query-parameter map, and endpoint,     *)
(* headers and body are unchanged.                                         *)
C9_ParamsReplace ==
    [][\A b \in Tests : \A m \in ParamMaps : params(b, m) =>
        /\ api'[b].requestParams = Some(m)
        /\ api'[b].endpoint = api[b].endpoint
        /\ api'[b].requestBody = api[b].requestBody
        /\ api'[b].requestHeaders = api[b].requestHeaders
        /\ heap' = heap]_vars

(* params(m1) then params(m2), m1 having a key that m2 lacks               *)
C9_Witness ==
    \E b \in Tests : \E m1 \in prevParams[b] : \E m2 \in api[b].requestParams :
        /\ (DOMAIN m1) \ (DOMAIN m2) # {}
        /\ "per_page" \notin DOMAIN m2

(* any call test b makes on its builder                                    *)
CallBy(b) ==
    \/ Fixture(b)
    \/ \E p \in Paths : path(b, p)
    \/ \E m \in ParamMaps : params(b, m)
    \/ \E d \in Bodies : body(b, d)
    \/ \E h \in HeaderMaps : headers(b, h)
    \/ withoutAuth(b)
    \/ reset(b)

(* C10: operations on one builder never change the configuration of        *)
(* another, under any interleaving of two tests' calls.                    *)
C10_BuildersIndependent ==
    [][\A b \in Tests : CallBy(b) =>
        \A c \in Tests \ {b} :
            /\ api'[c] = api[c]
            /\ Constructed(c) =>
                    heap'[api[c].requestHeaders] = heap[api[c].requestHeaders]]_vars

(* revision 2 deleted Authorization in place on one builder while the      *)
(* other builder still has its own                                         *)
C10_Witness ==
    \E b, c \in Tests :
        /\ b # c /\ revision = 2
        /\ Constructed(b) /\ Constructed(c)
        /\ hdrOp[b] = "withoutAuth" /\ "Authorization" \notin DOMAIN HeadersOf(b)
        /\ hdrOp[c] = "default" /\ "Authorization" \in DOMAIN HeadersOf(c)

----------------------------------------------------------------------------
(* Properties of the schema validator and of the assertion extensions      *)

Registered == { r.key : r \in registry }

C12_ValidatorErrorsEscape ==
    (verdict # None /\ The(verdict).matcher = "shouldMatchSchema"
        /\ The(verdict).rev = 2
        /\ The(vres).call = The(verdict).validation
        /\ The(vres).raised # None) =>
        The(verdict).outcome \notin {"succeeds", "fails"}

Present(d) == Keys(d.kv)
Missing(d) == Range(UserFields) \ Present(d)
Foreign(d) == Present(d) \ Range(UserFields)
IllFormed(d) ==
    { d.kv[i][1] : i \in { j \in 1..Len(d.kv) :
          /\ d.kv[j][1] \in Range(UserFields)
          /\ d.kv[j][2] # FieldValue(d.kv[j][1], "good") } }

(* C14: against the closed User schema a candidate lacking a required      *)
(* field is invalid with a message that references the field, a candidate  *)
(* with a foreign property is invalid, and the errors list holds one       *)
(* message per violation.                                                  *)
C14_ClosedUserSchema ==
    (vres # None /\ The(vres).validator = 2
        /\ The(vres).schemaName = <<"userSchema">>) =>
        LET d == The(vres).data
            result == The(The(vres).result)
        IN  /\ \A f \in Missing(d) :
                /\ ~result.valid
                /\ \E i \in 1..Len(result.errors) : Includes(result.errors[i], f)
            /\ Foreign(d) # {} => ~result.valid
            /\ Len(result.errors) =
                  Cardinality(Missing(d)) + Cardinality(Foreign(d))
                  + Cardinality(IllFormed(d))
            /\ result.valid <=> (Missing(d) \cup Foreign(d) \cup IllFormed(d) = {})

C14_Witness ==
    /\ vres # None /\ The(vres).validator = 2
    /\ Missing(The(vres).data) = {<<"email">>, <<"status">>}
    /\ Foreign(The(vres).data) = {<<"role">>}
    /\ Len(The(The(vres).result).errors) = 3

(* C15: shouldMatchSchema(name) passes exactly when the validator reports  *)
(* the received value valid, and when it fails because the data is invalid *)
(* its message contains every error the validator reported and the         *)
(* pretty-printed received body.                                           *)
C15_MatchesValidatorVerdict ==
    (verdict # None /\ The(verdict).matcher = "shouldMatchSchema"
        /\ The(verdict).rev = 2
        /\ The(vres).call = The(verdict).validation) =>
        LET v == The(vres)
            a == The(verdict)
            valid == v.result # None /\ The(v.result).valid
        IN  /\ v.data = a.received /\ v.schemaName = a.expected.s
            /\ a.pass <=> valid
            /\ (v.result # None /\ ~valid) =>
                  /\ Includes(a.message, The(The(v.result).errors))
                  /\ Includes(a.message, The(Pretty(a.received)))
                  /\ \A r \in registry : r.key = a.expected.s =>
                        LET errs == AjvErrors(1, r.schema, a.received, <<>>)
                        IN  /\ errs # <<>>
                            /\ \A i \in 1..Len(errs) :
                                  Includes(a.message, errs[i].message)

C15_Witness ==
    /\ verdict # None /\ The(verdict).matcher = "shouldMatchSchema"
    /\ The(verdict).rev = 2 /\ ~The(verdict).pass
    /\ The(verdict).received = BadUser
    /\ The(vres).call = The(verdict).validation /\ The(vres).result # None
    /\ Includes(The(verdict).message, The(The(The(vres).result).errors))
    /\ Includes(The(verdict).message, The(Pretty(BadUser)))

Exported(resource, operation) ==
    IF ModuleExports(resource, operation).kind = "document"
    THEN ModuleExports(resource, operation)
    ELSE ModuleExports(resource, operation \o <<"Schema">>)

(* C16: shouldMatchSchema(resource, operation) passes whenever the         *)
(* received value conforms to the schema the resource's module exports as  *)
(* operation or operation + 'Schema'.                                      *)
C16_PassesWhenConforming ==
    (verdict # None /\ The(verdict).matcher = "shouldMatchSchema"
        /\ The(verdict).rev = 1) =>
        LET a == The(verdict)
            exported == Exported(a.expected.kv[1][2].s, a.expected.kv[2][2].s)
        IN  /\ (exported.kind = "document"
                   /\ AjvErrors(2, exported.doc[1], a.received, <<>>) = <<>>)
                => a.pass
            /\ ~a.pass =>
                  \/ exported.kind # "document"
                  \/ AjvErrors(2, exported.doc[1], a.received, <<>>) # <<>>

(* C17: shouldEqual passes if and only if the values are strictly equal or *)
(* their JSON serializations are the same text; objects with the same keys *)
(* and values in the same order pass, objects differing in a value or in   *)
(* key order fail.                                                         *)
C17_EqualOrSameSerialization ==
    (verdict # None /\ The(verdict).matcher = "shouldEqual") =>
        LET a == The(verdict)
            r == a.received
            e == a.expected
        IN  /\ a.pass <=> (StrictEquals(r, e) \/ Stringify(r) = Stringify(e))
            /\ (r.t = "object" /\ e.t = "object") => (a.pass <=> r.kv = e.kv)
            /\ (r = AB /\ e = ABAgain) => a.pass
            /\ (r = AB /\ e = AB9) => ~a.pass
            /\ (r = AB /\ e = BA) => ~a.pass

C17_Witness ==
    /\ verdict # None /\ The(verdict).matcher = "shouldEqual"
    /\ The(verdict).received = AB /\ The(verdict).expected = ABAgain
    /\ ~StrictEquals(AB, ABAgain)
    /\ The(verdict).pass

(* C18: shouldContain on a string passes exactly when the expected string  *)
(* occurs in it, and on an array exactly when some element is identical to *)
(* the expected value or serializes to the same JSON; [1,2,3] contains 2,  *)
(* "hello world" contains "world", [1,2,3] does not contain 9.             *)
C18_ContainsInStringOrArray ==
    (verdict # None /\ The(verdict).matcher = "shouldContain") =>
        LET a == The(verdict)
            r == a.received
            e == a.expected
        IN  /\ (r.t = "string" /\ e.t = "string") =>
                  (a.pass <=> \E i \in 1..(Len(r.s) + 1) :
                                  /\ i + Len(e.s) - 1 <= Len(r.s)
                                  /\ SubSeq(r.s, i, i + Len(e.s) - 1) = e.s)
            /\ r.t = "array" =>
                  (a.pass <=> \E i \in 1..Len(r.kv) :
                                  \/ StrictEquals(r.kv[i][2], e)
                                  \/ Stringify(r.kv[i][2]) = Stringify(e))
            /\ (r = OneTwoThree /\ e = N2) => a.pass
            /\ (r = HelloWorld /\ e = World) => a.pass
            /\ (r = OneTwoThree /\ e = N9) => ~a.pass

C18_Witness ==
    /\ verdict # None /\ The(verdict).matcher = "shouldContain"
    /\ The(verdict).received = Holder /\ The(verdict).expected = A1Again
    /\ The(verdict).pass

(* C19: shouldContain on a non-array object passes exactly when the JSON   *)
(* serialization of the object contains the JSON serialization of the      *)
(* expected fragment, whatever the fragment is.                            *)
C19_ObjectContainsSerializedFragment ==
    (verdict # None /\ The(verdict).matcher = "shouldContain"
        /\ The(verdict).received.t = "object"
        /\ The(verdict).expected.t # "undefined") =>
        (The(verdict).pass <=>
            Includes(The(Stringify(The(verdict).received)),
                     The(Stringify(The(verdict).expected))))

Ats(s) == { i \in 1..Len(s) : s[i] = "@" }
WellFormedEmail(s) ==
    /\ Cardinality(Ats(s)) = 1
    /\ \A i \in 1..Len(s) : s[i] \notin Whitespace
    /\ LET at == CHOOSE i \in Ats(s) : TRUE
       IN  /\ at > 1
           /\ \E k \in (at + 2)..(Len(s) - 1) : s[k] = "."

(* C20: shouldBeValidEmail passes exactly for a string with a non-empty    *)
(* local part, one '@' and a domain holding a dot with text on both sides, *)
(* without whitespace; it passes for a@b.com and fails for not-an-email,   *)
(* for a@@b.com and for every value that is not a string.                  *)
C20_ValidEmailShape ==
    (verdict # None /\ The(verdict).matcher = "shouldBeValidEmail") =>
        LET a == The(verdict)
        IN  /\ a.pass <=> (a.received.t = "string" /\ WellFormedEmail(a.received.s))
            /\ a.received.s = ABCom => a.pass
            /\ a.received.s \in {NotAnEmail, AAtAtBCom} => ~a.pass
            /\ a.received.t # "string" => ~a.pass

C20_Witness ==
    /\ verdict # None /\ The(verdict).matcher = "shouldBeValidEmail"
    /\ The(verdict).received = Str(<<"a", "@", "a", ".", "a">>)
    /\ The(verdict).pass

(* C24: a verb method leaves the builder's configuration alone: no step    *)
(* that starts a verb call, happens while it awaits or ends it (by a       *)
(* response, a failed status assertion or a rejection) changes endpoint,   *)
(* params, headers or body; and the request a verb call hands over is      *)
(* made of the configuration as it stands, so what an earlier request      *)
(* sent is sent again unless it was replaced or reset in between.          *)
C24_VerbsKeepConfiguration ==
    [][\A b \in Tests :
          (call[b].pc = "awaiting" \/ call'[b].pc = "awaiting") =>
              /\ Config(b)' = Config(b)
              /\ (call[b].pc # "awaiting" =>
                    /\ wire'[b] # None
                    /\ The(wire'[b]).url = api[b].endpoint
                    /\ The(wire'[b]).headers = HeadersOf(b)
                    /\ (call'[b].verb = "get" =>
                            The(wire'[b]).params = api[b].requestParams)
                    /\ (call'[b].verb \in {"post", "put", "patch"} =>
                            The(wire'[b]).data = api[b].requestBody))]_vars

(* a verb call failed its status assertion and the path, the params and    *)
(* the body set before it are still in place                               *)
C24_Witness ==
    \E b \in Tests :
        /\ call[b].pc = "done" /\ call[b].outcome = "AssertionError"
        /\ api[b].endpoint # ""
        /\ api[b].requestParams # None
        /\ api[b].requestBody # None

(* C25: GET sends the current params and headers and never the body; POST, *)
(* PUT and PATCH send the current body and headers and never the params;   *)
(* DELETE sends only the headers.                                          *)
C25_VerbTransmits ==
    \A b \in Tests :
        wire[b] # None =>
            LET r == The(wire[b])
            IN  /\ r.headers = HeadersOf(b)
                /\ r.method = "get" =>
                      /\ r.keys = {"params", "headers"}
                      /\ r.params = api[b].requestParams /\ r.data = None
                /\ r.method \in {"post", "put", "patch"} =>
                      /\ r.keys = {"data", "headers"}
                      /\ r.data = api[b].requestBody /\ r.params = None
                /\ r.method = "delete" =>
                      /\ r.keys = {"headers"}
                      /\ r.params = None /\ r.data = None

(* a DELETE in flight from a builder that has both params and a body set   *)
C25_Witness ==
    \E b \in Tests :
        /\ wire[b] # None /\ The(wire[b]).method = "delete"
        /\ api[b].requestParams # None /\ api[b].requestBody # None
        /\ The(wire[b]).params = None /\ The(wire[b]).data = None

(* the email property of the User schema                                   *)
EmailProperty == userSchema.props[3][2]

(* C26: the email format check of the schema validator (the name-based     *)
(* one with ajv-formats and the document-based one with its own format)    *)
(* and shouldBeValidEmail accept exactly the same strings.                 *)
C26_SameEmailStrings ==
    (/\ verdict # None
     /\ The(verdict).matcher = "shouldBeValidEmail"
     /\ The(verdict).received.t = "string") =>
        \A validator \in {1, 2} :
            (AjvErrors(validator, EmailProperty, The(verdict).received, <<>>) = <<>>)
                <=> The(verdict).pass

(* C27: a validate() call made while the registry is not yet populated     *)
(* behaves as a first call would on the directory as it is then: it ends   *)
(* with the full registry, or raises the load error a first call raises,   *)
(* and never fails over schemas an earlier, failed attempt left behind.    *)
C27_RetryBehavesAsFirstCall ==
    [][(/\ validations' = validations + 1
        /\ vres' # None /\ The(vres').validator = 1
        /\ ~initialized) =>
           LET fresh == addSchemas(Directory, {})
           IN  IF fsys.readable /\ fresh.raised = None
               THEN initialized' /\ registry' = fresh.registry
               ELSE /\ ~initialized'
                    /\ The(vres').raised # None
                    /\ (fsys.readable => The(vres').raised = fresh.raised)]_vars

(* C28: with CI unset or set to false the run uses 0 retries, 2 workers    *)
(* and allows test.only; with CI set to true it uses 2 retries, 3 workers  *)
(* and forbids test.only.                                                  *)
C28_CIFlagByMeaning ==
    config # None =>
        /\ ci \in {None, Some("false")} =>
              /\ The(config).retries = 0
              /\ The(config).workers = 2
              /\ ~The(config).forbidOnly
        /\ ci = Some("true") =>
              /\ The(config).retries = 2
              /\ The(config).workers = 3
              /\ The(config).forbidOnly

(* the test's user is gone: the service answers 404 to a GET of its id     *)
Gone(id) == Serve(Chain("get", id, None, None), users, nextId).reply.status = 404

C22_CreatedUsersAreSwept ==
    (run.test \in PostSuite /\ run.verdict # "" /\ run.phase = "idle") =>
        Range(run.mine) \subseteq Range(run.hook.swept)

(* C23: when the afterEach hook is over, a delete was attempted for every  *)
(* recorded id, in order, whatever became of the earlier ones; the hook    *)
(* never fails; and createdUserIds is empty.                               *)
C23_CleanupLogsAndContinues ==
    /\ run.hook.outcome # "failed"
    /\ (run.test \in PostSuite /\ run.verdict # "" /\ run.phase = "idle") =>
          /\ run.hook.outcome = "passed"
          /\ run.hook.swept = run.hook.recorded
          /\ run.createdUserIds = <<>>
    /\ run.phase = "hook" =>
          run.hook.swept = SubSeq(run.hook.recorded, 1, run.hook.at - 1)

(* the hook is over after three recorded ids of which at least two could   *)
(* not be deleted                                                          *)
C23_Witness ==
    /\ run.phase = "idle" /\ run.hook.outcome = "passed"
    /\ Len(run.hook.recorded) = 3
    /\ run.hook.failures >= 2
    /\ run.hook.swept = run.hook.recorded

(* C29: the user the quick smoke test created is in the first page of 10   *)
(* users fetched right after its creation and not in the list fetched      *)
(* after its deletion, whatever the tests of the other workers create and  *)
(* delete in between.                                                      *)
C29_CreatedUserOnFirstPage ==
    (run.test = "quick" /\ run.last.op = "list" /\ run.last.status = 200) =>
        /\ run.last.step = 2 => run.last.listed = Some(TRUE)
        /\ run.last.step = 4 => run.last.listed = Some(FALSE)

(* C30: page 1 and page 2 (per_page 5), requested one after the other by   *)
(* one test, share no user id, whatever the tests of the other workers     *)
(* create and delete between the two requests.                             *)
C30_PagesDisjoint ==
    (run.test = "pagination" /\ run.last.op = "list" /\ run.last.step = 2
        /\ run.last.status = 200) =>
            run.last.overlap = Some(FALSE)

====
